---- MODULE Spec2Model ----
(***************************************************************************)
(* policy-visualizer: the pixel-analysis engine (dominant-color            *)
(* clustering, grayscale + Sobel edge detection, edge-point comparison)    *)
(* and the two video frame-sampling orchestrators (the motion tool         *)
(* MotionDetectionAnalyzer and the color tool ColorUniformityAnalyzer).    *)
(*                                                                         *)
(* Conventions of the model                                                *)
(*  - a pixel buffer (ImageData.data) is a sequence of [r,g,b,a] records   *)
(*    in row-major order; pixel k (0-based) is data[k+1];                  *)
(*  - durations are integers in milliseconds, so floor(duration * 15) is   *)
(*    (ms * 15) \div 1000; a frame time i/15 is kept as the integer i      *)
(*    together with its denominator ANALYSIS_FPS;                          *)
(*  - a percentage x/y*100 is kept exactly, as the fraction                *)
(*    [n |-> 100*x, d |-> y];                                              *)
(*  - tolerance is kept in hundredths (the slider's step is 0.01);         *)
(*  - sqrt(s) < t and sqrt(s) > t are decided on the squares;               *)
(*  - null is the record Null; mediaType null is "none", a null error is   *)
(*    NoError, a null ref is 0, and frameByFrameResults is Null or         *)
(*    [list |-> the array];                                                *)
(*  - the canvases that only display (the visualisation of a result) are   *)
(*    not part of the state.                                               *)
(***************************************************************************)
EXTENDS Integers, Sequences, FiniteSets, TLC

\* null: every nullable value of the model is a record (or, for an error, the string below)
Null == [null |-> TRUE]

ANALYSIS_FPS == 15
MAX_VIDEO_DURATION == 15
COLOR_MAX_VIDEO_DURATION == 15
MAX_EXCLUDED_AREAS == 5
ALPHA_CUTOFF == 128

(***************************************************************************)
(* Exact fractions for the percentages                                     *)
(***************************************************************************)
Pct(x, y) == [n |-> 100 * x, d |-> y]
PctIs(p, k) == p.n = k * p.d
PctInRange(p) == p.d > 0 /\ 0 <= p.n /\ p.n <= 100 * p.d

(***************************************************************************)
(* Excluded areas: the predicate both pipelines use                        *)
(***************************************************************************)
\* a plausible slip: <= for < at the far edges
InAreaInclusive(px, py, area) ==
    /\ px >= area.x /\ px <= area.x + area.width
    /\ py >= area.y /\ py <= area.y + area.height

InArea(px, py, area) ==
    /\ px >= area.x /\ px < area.x + area.width
    /\ py >= area.y /\ py < area.y + area.height

isPixelInExcludedArea(px, py, areasToExclude) ==
    \E k \in 1..Len(areasToExclude) : InArea(px, py, areasToExclude[k])

(***************************************************************************)
(* Dominant Color Clusterer: analyzeFrame                                  *)
(***************************************************************************)
RGBOf(p) == [r |-> p.r, g |-> p.g, b |-> p.b]

\* colorDistance returns sqrt of this sum of squares
colorDistanceSq(c1, c2) ==
    LET rDiff == c1.r - c2.r
        gDiff == c1.g - c2.g
        bDiff == c1.b - c2.b
    IN  rDiff * rDiff + gDiff * gDiff + bDiff * bDiff

\* a plausible slip: <= for <
WithinThresholdInclusive(c1, c2, thresholdDist) ==
    colorDistanceSq(c1, c2) <= thresholdDist * thresholdDist

\* colorDistance(c1, c2) < thresholdDist, for thresholdDist >= 0
WithinThreshold(c1, c2, thresholdDist) ==
    colorDistanceSq(c1, c2) < thresholdDist * thresholdDist

RECURSIVE FirstMatch(_, _, _, _)
FirstMatch(colorClusters, pixelColor, thresholdDist, j) ==
    IF j > Len(colorClusters) THEN 0
    ELSE IF WithinThreshold(pixelColor, colorClusters[j].representative, thresholdDist)
         THEN j
         ELSE FirstMatch(colorClusters, pixelColor, thresholdDist, j + 1)

\* a plausible slip: the loop over the clusters lacks its break
AssignPixelNoBreak(colorClusters, pixelColor, thresholdDist) ==
    LET hit == {j \in 1..Len(colorClusters) :
                  WithinThreshold(pixelColor, colorClusters[j].representative, thresholdDist)}
    IN  IF hit = {}
        THEN Append(colorClusters, [representative |-> pixelColor, count |-> 1])
        ELSE [j \in 1..Len(colorClusters) |->
                 IF j \in hit
                 THEN [colorClusters[j] EXCEPT !.count = @ + 1]
                 ELSE colorClusters[j]]

\* lines 161-169: first cluster within the threshold gets the pixel, else a new one
AssignPixel(colorClusters, pixelColor, thresholdDist) ==
    LET j == FirstMatch(colorClusters, pixelColor, thresholdDist, 1)
    IN  IF j = 0
        THEN Append(colorClusters, [representative |-> pixelColor, count |-> 1])
        ELSE [colorClusters EXCEPT ![j].count = @ + 1]

\* a plausible slip: the alpha test left out
SkippedPixelNoAlpha(data, width, areasToExclude, k) ==
    isPixelInExcludedArea(k % width, k \div width, areasToExclude)

\* is pixel k (0-based) skipped by the pass
SkippedPixel(data, width, areasToExclude, k) ==
    \/ data[k + 1].a < ALPHA_CUTOFF
    \/ isPixelInExcludedArea(k % width, k \div width, areasToExclude)

RECURSIVE ClusterPass(_, _, _, _, _, _)
ClusterPass(data, width, areasToExclude, thresholdDist, k, acc) ==
    IF k >= Len(data) THEN acc
    ELSE IF SkippedPixel(data, width, areasToExclude, k)
         THEN ClusterPass(data, width, areasToExclude, thresholdDist, k + 1, acc)
         ELSE ClusterPass(data, width, areasToExclude, thresholdDist, k + 1,
                [analyzablePixelCount |-> acc.analyzablePixelCount + 1,
                 colorClusters |-> AssignPixel(acc.colorClusters, RGBOf(data[k + 1]),
                                               thresholdDist)])

\* the state of analyzeFrame's locals after the loop of lines 148-170
Clusters(imageData, thresholdDist, areasToExclude) ==
    ClusterPass(imageData.data, imageData.width, areasToExclude, thresholdDist, 0,
                [analyzablePixelCount |-> 0, colorClusters |-> <<>>])

\* colorClusters.reduce((max, c) => c.count > max.count ? c : max, colorClusters[0])
RECURSIVE DominantFrom(_, _, _)
DominantFrom(colorClusters, j, max) ==
    IF j > Len(colorClusters) THEN max
    ELSE DominantFrom(colorClusters, j + 1,
                      IF colorClusters[j].count > max.count THEN colorClusters[j] ELSE max)

\* a plausible slip: >= for >, so that the last of the largest clusters wins
DominantClusterLast(colorClusters) ==
    LET largest == {j \in 1..Len(colorClusters) :
                      \A i \in 1..Len(colorClusters) :
                          colorClusters[i].count <= colorClusters[j].count}
    IN  colorClusters[CHOOSE j \in largest : \A i \in largest : i <= j]

DominantCluster(colorClusters) == DominantFrom(colorClusters, 1, colorClusters[1])

\* lines 180-195: the copy with every analyzable pixel near the dominant color painted red
Highlight(imageData, dominantColor, thresholdDist, areasToExclude) ==
    [k \in 1..Len(imageData.data) |->
        IF /\ ~SkippedPixel(imageData.data, imageData.width, areasToExclude, k - 1)
           /\ WithinThreshold(RGBOf(imageData.data[k]), dominantColor, thresholdDist)
        THEN [r |-> 255, g |-> 0, b |-> 0, a |-> imageData.data[k].a]
        ELSE imageData.data[k]]

analyzeFrame(imageData, thresholdDist, areasToExclude) ==
    LET pass == Clusters(imageData, thresholdDist, areasToExclude)
    IN  IF Len(pass.colorClusters) = 0 THEN Null
        ELSE LET dominantCluster == DominantCluster(pass.colorClusters)
                 denom == IF pass.analyzablePixelCount = 0 THEN 1
                          ELSE pass.analyzablePixelCount
             IN  [newImageData |-> Highlight(imageData, dominantCluster.representative,
                                             thresholdDist, areasToExclude),
                  dominantColor |-> dominantCluster.representative,
                  percentage |-> Pct(dominantCluster.count, denom)]

(***************************************************************************)
(* Grayscale Converter and Sobel Edge Detector (utils/imageProcessing.ts)  *)
(***************************************************************************)
\* the store into a Uint8ClampedArray: round to nearest, ties to even, clamp
ToUint8Clamped(n, d) ==
    LET q == n \div d
        rem == n % d
        rounded == IF 2 * rem < d THEN q
                   ELSE IF 2 * rem > d THEN q + 1
                   ELSE IF q % 2 = 0 THEN q ELSE q + 1
    IN  IF rounded < 0 THEN 0 ELSE IF rounded > 255 THEN 255 ELSE rounded

toGrayscale(imageData) ==
    [j \in 1..(imageData.width * imageData.height) |->
        LET p == imageData.data[j]
        IN  ToUint8Clamped(299 * p.r + 587 * p.g + 114 * p.b, 1000)]

sobelX == << <<-1, 0, 1>>, <<-2, 0, 2>>, <<-1, 0, 1>> >>
sobelY == << <<-1, -2, -1>>, <<0, 0, 0>>, <<1, 2, 1>> >>

RECURSIVE SumOver(_, _, _)
SumOver(f, n, upto) == IF n > upto THEN 0 ELSE f[n] + SumOver(f, n + 1, upto)

\* the gradient at (x, y): kernel cell c = 0..8 is (ky, kx) = (c \div 3 - 1, c % 3 - 1)
Gradient(grayscaleData, width, x, y, kernel) ==
    SumOver([c \in 0..8 |->
               LET ky == (c \div 3) - 1
                   kx == (c % 3) - 1
                   pixelIndex == (y + ky) * width + (x + kx)
               IN  grayscaleData[pixelIndex + 1] * kernel[ky + 2][kx + 2]], 0, 8)

\* a plausible slip: < for >
IsEdgeBelow(grayscaleData, width, x, y, threshold) ==
    LET gx == Gradient(grayscaleData, width, x, y, sobelX)
        gy == Gradient(grayscaleData, width, x, y, sobelY)
    IN  threshold >= 0 /\ gx * gx + gy * gy < threshold * threshold

\* a plausible slip: >= for >
IsEdgeInclusive(grayscaleData, width, x, y, threshold) ==
    LET gx == Gradient(grayscaleData, width, x, y, sobelX)
        gy == Gradient(grayscaleData, width, x, y, sobelY)
    IN  threshold < 0 \/ gx * gx + gy * gy >= threshold * threshold

\* Math.sqrt(gx * gx + gy * gy) > threshold, compared on the squares (a magnitude is
\* above every negative threshold)
IsEdge(grayscaleData, width, x, y, threshold) ==
    LET gx == Gradient(grayscaleData, width, x, y, sobelX)
        gy == Gradient(grayscaleData, width, x, y, sobelY)
    IN  threshold < 0 \/ gx * gx + gy * gy > threshold * threshold

RECURSIVE SobelScan(_, _, _, _, _, _)
SobelScan(grayscaleData, width, height, threshold, excludedAreas, n) ==
    IF width < 3 \/ height < 3 \/ n >= (width - 2) * (height - 2) THEN <<>>
    ELSE LET x == 1 + (n % (width - 2))
             y == 1 + (n \div (width - 2))
             rest == SobelScan(grayscaleData, width, height, threshold, excludedAreas, n + 1)
         IN  IF isPixelInExcludedArea(x, y, excludedAreas) THEN rest
             ELSE IF IsEdge(grayscaleData, width, x, y, threshold)
                  THEN <<[x |-> x, y |-> y]>> \o rest
                  ELSE rest

\* a plausible slip: the loops start at 0, the window of the kernel starts at the pixel
sobelShifted(grayscaleData, width, height, threshold, excludedAreas) ==
    LET points == SobelScan(grayscaleData, width, height, threshold, excludedAreas, 0)
    IN  [i \in 1..Len(points) |-> [x |-> points[i].x - 1, y |-> points[i].y - 1]]

sobel(grayscaleData, width, height, threshold, excludedAreas) ==
    SobelScan(grayscaleData, width, height, threshold, excludedAreas, 0)

\* MotionDetectionAnalyzer.getEdgePoints
getEdgePoints(imageData, edgeThreshold, areasToExclude) ==
    sobel(toGrayscale(imageData), imageData.width, imageData.height, edgeThreshold,
          areasToExclude)

(***************************************************************************)
(* Motion Comparator: comparePoints                                        *)
(***************************************************************************)
Min(a, b) == IF a < b THEN a ELSE b

SeqToSet(s) == {s[i] : i \in 1..Len(s)}

\* every order [...currentPoints].sort(() => 0.5 - Math.random()) can leave
Shuffles(s) ==
    {[i \in 1..Len(s) |-> s[p[i]]] :
        p \in {q \in [1..Len(s) -> 1..Len(s)] : \A i, j \in 1..Len(s) : q[i] = q[j] => i = j}}

RECURSIVE Filter(_, _, _)
Filter(s, keep, i) ==
    IF i > Len(s) THEN <<>>
    ELSE IF s[i] \in keep THEN <<s[i]>> \o Filter(s, keep, i + 1)
         ELSE Filter(s, keep, i + 1)

\* a plausible slip: the percentage of the stable points instead of the moved ones
comparePointsStable(prevPoints, currentPoints, comparisonPoints, shuffled) ==
    LET sampleSize == Min(Len(currentPoints), comparisonPoints)
        currentSample == SubSeq(shuffled, 1, sampleSize)
        prevPointsSet == SeqToSet(prevPoints)
        stablePoints == Filter(currentSample, prevPointsSet, 1)
        movedPoints == Filter(currentSample, SeqToSet(currentSample) \ prevPointsSet, 1)
    IN  IF sampleSize = 0
        THEN [stablePoints |-> <<>>, movedPoints |-> <<>>,
              changedPercentage |-> Pct(0, 1), lowConfidence |-> FALSE]
        ELSE [stablePoints |-> stablePoints, movedPoints |-> movedPoints,
              changedPercentage |-> Pct(Len(stablePoints), sampleSize),
              lowConfidence |-> Len(currentPoints) < comparisonPoints]

\* a plausible slip: the sample is not cut to sampleSize
comparePointsNoSlice(prevPoints, currentPoints, comparisonPoints, shuffled) ==
    LET sampleSize == Min(Len(currentPoints), comparisonPoints)
        prevPointsSet == SeqToSet(prevPoints)
        stablePoints == Filter(shuffled, prevPointsSet, 1)
        movedPoints == Filter(shuffled, SeqToSet(shuffled) \ prevPointsSet, 1)
    IN  IF sampleSize = 0
        THEN [stablePoints |-> <<>>, movedPoints |-> <<>>,
              changedPercentage |-> Pct(0, 1), lowConfidence |-> FALSE]
        ELSE [stablePoints |-> stablePoints, movedPoints |-> movedPoints,
              changedPercentage |-> Pct(Len(movedPoints), sampleSize),
              lowConfidence |-> Len(currentPoints) < comparisonPoints]

\* a plausible slip: the test of the lookup is negated
comparePointsNegated(prevPoints, currentPoints, comparisonPoints, shuffled) ==
    LET sampleSize == Min(Len(currentPoints), comparisonPoints)
        prevPointsSet == SeqToSet(prevPoints)
        currentSample == SubSeq(shuffled, 1, sampleSize)
        stablePoints == Filter(currentSample, SeqToSet(currentSample) \ prevPointsSet, 1)
        movedPoints == Filter(currentSample, prevPointsSet, 1)
    IN  IF sampleSize = 0
        THEN [stablePoints |-> <<>>, movedPoints |-> <<>>,
              changedPercentage |-> Pct(0, 1), lowConfidence |-> FALSE]
        ELSE [stablePoints |-> stablePoints, movedPoints |-> movedPoints,
              changedPercentage |-> Pct(Len(movedPoints), sampleSize),
              lowConfidence |-> Len(currentPoints) < comparisonPoints]

\* a plausible slip: the sample is drawn with replacement (its first point again in
\* place of its last)
comparePointsReplacing(prevPoints, currentPoints, comparisonPoints, shuffled) ==
    LET sampleSize == Min(Len(currentPoints), comparisonPoints)
        prevPointsSet == SeqToSet(prevPoints)
        currentSample == [i \in 1..sampleSize |->
                             IF i = sampleSize THEN shuffled[1] ELSE shuffled[i]]
        stablePoints == Filter(currentSample, prevPointsSet, 1)
        movedPoints == Filter(currentSample, SeqToSet(currentSample) \ prevPointsSet, 1)
    IN  IF sampleSize = 0
        THEN [stablePoints |-> <<>>, movedPoints |-> <<>>,
              changedPercentage |-> Pct(0, 1), lowConfidence |-> FALSE]
        ELSE [stablePoints |-> stablePoints, movedPoints |-> movedPoints,
              changedPercentage |-> Pct(Len(movedPoints), sampleSize),
              lowConfidence |-> Len(currentPoints) < comparisonPoints]

\* `shuffled` is the outcome of the random sort of a copy of currentPoints
comparePoints(prevPoints, currentPoints, comparisonPoints, shuffled) ==
    LET lowConfidence == Len(currentPoints) < comparisonPoints /\ Len(currentPoints) > 0
        sampleSize == Min(Len(currentPoints), comparisonPoints)
        prevPointsSet == SeqToSet(prevPoints)
        currentSample == SubSeq(shuffled, 1, sampleSize)
        stablePoints == Filter(currentSample, prevPointsSet, 1)
        movedPoints == Filter(currentSample, SeqToSet(currentSample) \ prevPointsSet, 1)
    IN  IF sampleSize = 0
        THEN [stablePoints |-> <<>>, movedPoints |-> <<>>,
              changedPercentage |-> Pct(0, 1), lowConfidence |-> FALSE]
        ELSE [stablePoints |-> stablePoints, movedPoints |-> movedPoints,
              changedPercentage |-> Pct(Len(movedPoints), sampleSize),
              lowConfidence |-> lowConfidence]

\* line 215: (changedPercentage / 100) >= tolerance, tolerance in hundredths
MotionDetected(changedPercentage, tolerance) ==
    changedPercentage.n >= tolerance * changedPercentage.d

(***************************************************************************)
(* The media the user can pick (the inputs of the model)                   *)
(***************************************************************************)
MaxClicks == 4
MaxFaults == 1

\* a 4x3 frame whose columns in `bright` are white and the others black
Frame(bright, alpha) ==
    [width |-> 4, height |-> 3,
     data |-> [k \in 1..12 |->
                 LET v == IF ((k - 1) % 4) \in bright THEN 255 ELSE 0
                 IN  [r |-> v, g |-> v, b |-> v, a |-> alpha]]]

FrameCatalogue ==
    [flat |-> Frame({}, 255), left |-> Frame({0}, 255), both |-> Frame({0, 3}, 255),
     clear |-> Frame({0}, 0)]

\* file.type starts with 'video/' or 'image/' or neither; a video has its duration in
\* milliseconds and the frames shown from time 0 on, one per 1/15 s (the last one stays)
Files ==
    << [type |-> "video", duration |-> 140, frames |-> <<"flat", "both">>],
       [type |-> "video", duration |-> 200, frames |-> <<"left", "left", "flat">>],
       [type |-> "video", duration |-> 15001, frames |-> <<"flat">>],
       [type |-> "other"],
       [type |-> "video", duration |-> 15000, frames |-> <<"flat">>],
       [type |-> "video", duration |-> 140, frames |-> <<"clear", "left">>],
       [type |-> "image", frames |-> <<"left">>],
       [type |-> "image", frames |-> <<"clear">>] >>

\* the frame a video element shows at time i/15
FrameAt(file, i) ==
    FrameCatalogue[Files[file].frames[Min(i + 1, Len(Files[file].frames))]]

VideoDimensionsOf(file) == [width |-> 4, height |-> 3]

\* a plausible slip: Math.ceil for Math.floor
TotalFramesCeil(duration) == (duration * ANALYSIS_FPS + 999) \div 1000

\* Math.floor(duration * ANALYSIS_FPS), duration in milliseconds
TotalFrames(duration) == (duration * ANALYSIS_FPS) \div 1000

\* a plausible slip: >= for >
IsTooLongInclusive(duration) == duration >= MAX_VIDEO_DURATION * 1000

\* video.duration > MAX_VIDEO_DURATION
IsTooLong(duration) == duration > MAX_VIDEO_DURATION * 1000

VARIABLES
    \* arguments and return value of a call of one of the pure functions
    call, ret,
    \* how many times the user still acts (an upload, an Analyze click, a slider move),
    \* and how many times the host still fails (no context, an exception)
    clicksLeft, faultsLeft,
    \* MotionDetectionAnalyzer: component state
    videoUrl, videoDimensions, edgeThreshold, comparisonPoints, tolerance,
    mExcludedAreas, mIsProcessing, mProcessingProgress, mError, results,
    \* MotionDetectionAnalyzer: the host's side
    mLoads,      \* detached <video> elements of handleFileChange awaiting loadedmetadata
    mEls,        \* every <video> element React has mounted, by creation order
    videoRef,    \* videoRef.current: index into mEls, or 0 for null
    mRuns,       \* every invocation of handleAnalyzeVideoFile, by start order
    \* App: the tab whose analyzer is mounted
    activeTab,
    \* ColorUniformityAnalyzer: component state
    mediaUrl, mediaType, mediaDimensions, threshold, cExcludedAreas, cIsProcessing,
    cProcessingProgress, cError, analysisResult, frameByFrameResults,
    \* ColorUniformityAnalyzer: the host's side
    cLoads,            \* detached <video> and Image objects awaiting their load event
    cEls,              \* every <video> element React has mounted, by creation order
    sourceVideoRef,    \* sourceVideoRef.current: index into cEls, or 0 for null
    imageRef,          \* imageRef.current: the file of the Image, or 0 for null
    cCanvases,         \* the content of every "original" <canvas> React has mounted
    originalCanvasRef, \* originalCanvasRef.current: index into cCanvases, or 0 for null
    cCanvas,           \* the content of processingCanvasRef.current, or Null
    cRuns,             \* every invocation of handleAnalyzeClick that got to its work
    \* the clock: Date.now() as the next fresh id of an excluded area
    nextId,
    \* MotionDetectionAnalyzer: drawing and importing excluded areas
    mDrawingAreaId,    \* drawingAreaId: the id of an area, or 0 for null
    mReaders,          \* the FileReaders of handleImportJSON awaiting their load event
    \* ColorUniformityAnalyzer and its Controls: drawing and importing excluded areas
    cDrawingAreaId,    \* drawingAreaId: the id of an area, or 0 for null
    showJsonImport, jsonInput, jsonError,
    \* CaptureAlgorithmAnalyzer: component state (the OCR tab)
    imageDimensions, hasProcessed, ocrArea, ocrResult, isOcrProcessing, ocrError,
    kIsProcessing,       \* isProcessing of CaptureAlgorithmAnalyzer
    \* CaptureAlgorithmAnalyzer: the host's side
    kLoads,              \* the Image objects of handleFileChange awaiting their load event
    kTimers,             \* the pending 50 ms timers of handleAnalyze
    tesseractWorkerRef,  \* tesseractWorkerRef.current: index into ocrWorkers, or 0 for null
    isOcrCancelledRef,   \* isOcrCancelledRef.current
    ocrWorkers,          \* every worker Tesseract.createWorker has made: "alive"/"terminated"
    ocrRuns              \* every invocation of handleRunOcr that got past its guard

pureVars == <<call, ret>>
userVars == <<clicksLeft, faultsLeft, activeTab>>
cState == <<mediaUrl, mediaType, mediaDimensions, threshold, cExcludedAreas,
            cIsProcessing, cProcessingProgress, cError, analysisResult,
            frameByFrameResults>>
cHost == <<cLoads, cEls, sourceVideoRef, imageRef, cCanvases, originalCanvasRef,
           cCanvas, cRuns>>
cAreas == <<cDrawingAreaId, showJsonImport, jsonInput, jsonError>>
colorVars == <<cState, cHost, cAreas>>
mSettings == <<edgeThreshold, comparisonPoints, tolerance>>
mState == <<videoUrl, videoDimensions, mExcludedAreas, mIsProcessing,
            mProcessingProgress, mError, results>>
mHost == <<mLoads, mEls, videoRef, mRuns>>
mAreas == <<mDrawingAreaId, mReaders>>
motionVars == <<mSettings, mState, mHost, mAreas>>
kState ==
    <<imageDimensions, hasProcessed, ocrArea, ocrResult, isOcrProcessing, ocrError,
      kIsProcessing>>
kHost == <<kLoads, kTimers, tesseractWorkerRef, isOcrCancelledRef, ocrWorkers, ocrRuns>>
captureVars == <<kState, kHost>>
vars == <<pureVars, userVars, motionVars, colorVars, nextId, captureVars>>

NoError == "none"
ErrUnsupported == "Unsupported file type."
ErrTooLong == "Video is too long."
ErrContext == "Could not create processing context."
ErrVideoAnalysis == "An error occurred during video analysis."

ErrUnsupportedMedia == "Unsupported file type (image or video)."
ErrImageLoad == "Failed to load the image."
ErrNoColors == "Could not find any analyzable colors in the image."
ErrImageAnalysis == "An error occurred during image analysis."

InitPure == call = Null /\ ret = Null /\ nextId = 1

\* CaptureAlgorithmAnalyzer after its first render (the useState initial values)
InitCapture ==
    /\ imageDimensions = Null
    /\ hasProcessed = FALSE
    /\ kIsProcessing = FALSE
    /\ ocrArea = [x |-> 0, y |-> 0, width |-> 0, height |-> 0]
    /\ ocrResult = 0
    /\ isOcrProcessing = FALSE
    /\ ocrError = NoError
    /\ kLoads = {}
    /\ kTimers = 0
    /\ tesseractWorkerRef = 0
    /\ isOcrCancelledRef = FALSE
    /\ ocrWorkers = <<>>
    /\ ocrRuns = <<>>

\* ColorUniformityAnalyzer after its first render (the useState initial values)
InitColor ==
    /\ mediaUrl = Null
    /\ mediaType = "none"
    /\ threshold = 30
    /\ cIsProcessing = FALSE
    /\ cError = NoError
    /\ analysisResult = Null
    /\ mediaDimensions = Null
    /\ frameByFrameResults = Null
    /\ cProcessingProgress = Null
    /\ cExcludedAreas = <<>>
    /\ cLoads = {}
    /\ cEls = <<>>
    /\ sourceVideoRef = 0
    /\ imageRef = 0
    /\ cCanvases = <<>>
    /\ originalCanvasRef = 0
    /\ cCanvas = Null
    /\ cRuns = <<>>
    /\ cDrawingAreaId = 0
    /\ showJsonImport = FALSE
    /\ jsonInput = 0
    /\ jsonError = NoError

\* MotionDetectionAnalyzer after its first render (the useState initial values)
InitMotion ==
    /\ videoUrl = Null
    /\ edgeThreshold = 70
    /\ comparisonPoints = 1000
    /\ tolerance = 10
    /\ mExcludedAreas = <<>>
    /\ mIsProcessing = FALSE
    /\ mProcessingProgress = Null
    /\ mError = NoError
    /\ results = <<>>
    /\ videoDimensions = Null
    /\ mLoads = {}
    /\ mEls = <<>>
    /\ videoRef = 0
    /\ mRuns = <<>>
    /\ mDrawingAreaId = 0
    /\ mReaders = {}

(***************************************************************************)
(* MotionDetectionAnalyzer: handlers                                       *)
(***************************************************************************)
ToleranceChoices == {0, 10, 100}

VideoElement(file) == [file |-> file, currentTime |-> 0, seeking |-> FALSE]

\* video.currentTime = i / ANALYSIS_FPS on element e: a seek starts
SeekTo(els, e, i) == [els EXCEPT ![e].currentTime = i, ![e].seeking = TRUE]

\* setProcessingProgress(prev => ({ ...prev!, current })) : spreading null gives {}
WithCurrent(progress, current) ==
    IF progress = Null THEN [current |-> current]
    ELSE [progress EXCEPT !.current = current]

\* the tolerance slider (onChange of #tolerance)
SetTolerance(t) ==
    /\ activeTab = "motionDetection"
    /\ clicksLeft > 0
    /\ t # tolerance
    /\ clicksLeft' = clicksLeft - 1
    /\ tolerance' = t
    /\ UNCHANGED <<pureVars, nextId, captureVars, mAreas,
                   faultsLeft, activeTab, edgeThreshold, comparisonPoints, mState,
                   mHost, colorVars>>

\* handleFileChange(file): resetState(), then the type check and the detached <video>
\* that loads the metadata.  resetState sets videoDimensions to null, so the <video> of
\* the page is unmounted and videoRef.current becomes null.
MFileChange(f) ==
    /\ activeTab = "motionDetection"
    /\ clicksLeft > 0
    /\ clicksLeft' = clicksLeft - 1
    /\ videoUrl' = Null
    /\ results' = <<>>
    /\ mIsProcessing' = FALSE
    /\ mProcessingProgress' = Null
    /\ videoDimensions' = Null
    /\ mExcludedAreas' = <<>>
    /\ videoRef' = 0
    /\ IF Files[f].type # "video"
       THEN /\ mError' = ErrUnsupported
            /\ mLoads' = mLoads
       ELSE /\ mError' = NoError
            /\ mLoads' = mLoads \cup {[id |-> clicksLeft, file |-> f]}
    /\ mDrawingAreaId' = 0
    /\ UNCHANGED <<pureVars, nextId, captureVars, mReaders, faultsLeft, activeTab, mSettings,
                   mEls, mRuns, colorVars>>

\* video.onloadedmetadata of the detached <video> of upload l
MLoadedMetadata(l) ==
    /\ l \in mLoads
    /\ mLoads' = mLoads \ {l}
    /\ IF IsTooLong(Files[l.file].duration)
       THEN /\ mError' = ErrTooLong
            /\ UNCHANGED <<videoUrl, videoDimensions, mEls, videoRef>>
       ELSE /\ videoUrl' = [blob |-> l.file]
            /\ videoDimensions' = VideoDimensionsOf(l.file)
            /\ IF videoRef = 0
               THEN \* the <video> of the page is mounted with src = videoUrl
                    /\ mEls' = Append(mEls, VideoElement(l.file))
                    /\ videoRef' = Len(mEls) + 1
               ELSE \* the mounted <video> gets the new src: it loads the new media and
                    \* a seek in progress is dropped without a seeked event
                    /\ mEls' = [mEls EXCEPT ![videoRef] = VideoElement(l.file)]
                    /\ videoRef' = videoRef
            /\ mError' = mError
    /\ UNCHANGED <<pureVars, nextId, captureVars, mAreas,
                   userVars, mSettings, mExcludedAreas, mIsProcessing,
                   mProcessingProgress, results, mRuns, colorVars>>

NewRun(e, totalFrames) ==
    [el |-> e, file |-> mEls[e].file, i |-> 0, totalFrames |-> totalFrames,
     newResults |-> <<>>, previousEdgePoints |-> <<>>, pc |-> "awaitSeek",
     frameFailed |-> FALSE, edgeThreshold |-> edgeThreshold,
     comparisonPoints |-> comparisonPoints, tolerance |-> tolerance,
     excludedAreas |-> mExcludedAreas]

\* a host failure uses up faultsLeft
Fault(ok) ==
    IF ok THEN faultsLeft' = faultsLeft
    ELSE faultsLeft > 0 /\ faultsLeft' = faultsLeft - 1

\* handleAnalyzeVideoFile up to its first await; the button is
\* disabled={!videoUrl || isProcessing}.  outcome "noContext": getContext('2d') gave
\* null; "seekThrows": the assignment video.currentTime = time threw.
MAnalyzeClick(outcome) ==
    /\ activeTab = "motionDetection"
    /\ clicksLeft > 0
    /\ videoUrl # Null /\ ~mIsProcessing
    /\ videoRef # 0 /\ videoDimensions # Null
    /\ clicksLeft' = clicksLeft - 1
    /\ results' = <<>>
    /\ LET totalFrames == TotalFrames(Files[mEls[videoRef].file].duration)
           run == NewRun(videoRef, totalFrames)
       IN  IF outcome = "noContext"
           THEN /\ Fault(FALSE)
                /\ mError' = ErrContext
                /\ mIsProcessing' = FALSE
                /\ mProcessingProgress' = [current |-> 0, total |-> 0]
                /\ mEls' = mEls
                /\ mRuns' = Append(mRuns, [run EXCEPT !.pc = "failed"])
           ELSE IF totalFrames = 0
           THEN \* the loop body never runs: setResults([]) and the finally block
                /\ outcome = "ok"
                /\ Fault(TRUE)
                /\ mError' = NoError
                /\ mIsProcessing' = FALSE
                /\ mProcessingProgress' = Null
                /\ mEls' = SeekTo(mEls, videoRef, 0)
                /\ mRuns' = Append(mRuns, [run EXCEPT !.pc = "completed"])
           ELSE IF outcome = "seekThrows"
           THEN \* the catch block and the finally block
                /\ Fault(FALSE)
                /\ mError' = ErrVideoAnalysis
                /\ mIsProcessing' = FALSE
                /\ mProcessingProgress' = Null
                /\ mEls' = SeekTo(mEls, videoRef, 0)
                /\ mRuns' = Append(mRuns, [run EXCEPT !.pc = "failed", !.frameFailed = TRUE])
           ELSE /\ Fault(TRUE)
                /\ mError' = NoError
                /\ mIsProcessing' = TRUE
                /\ mProcessingProgress' = [current |-> 0, total |-> totalFrames]
                /\ mEls' = SeekTo(mEls, videoRef, 0)
                /\ mRuns' = Append(mRuns, run)
    /\ UNCHANGED <<pureVars, nextId, captureVars, mAreas,
                   activeTab, mSettings, videoUrl, videoDimensions,
                   mExcludedAreas, mLoads, videoRef, colorVars>>

\* the listener onSeeked of run r can be called: it is registered and its element
\* is seeking (every listener registered on an element is called when a seek of the
\* element ends, whoever started the seek)
SeekedFor(els, runs, r) ==
    /\ r \in 1..Len(runs)
    /\ runs[r].pc = "awaitSeek"
    /\ els[runs[r].el].seeking

\* the frame drawImage(video) paints for run r: the frame at the time sought, when r
\* is the only loop seeking on the element; with several loops on one element the
\* frame is the one of whichever seek the host served last
DrawnFrames(els, runs, r) ==
    LET e == runs[r].el
        others == {q \in 1..Len(runs) : q # r /\ runs[q].el = e /\ runs[q].pc = "awaitSeek"}
    IN  IF others = {}
        THEN {FrameAt(els[e].file, els[e].currentTime)}
        ELSE {FrameAt(els[e].file, i) : i \in 0..(Len(Files[els[e].file].frames) - 1)}

\* one result of the motion pipeline (lines 211-219)
MotionResult(i, cmp, tol) ==
    [frame |-> i, time |-> [n |-> i, d |-> ANALYSIS_FPS],
     changedPercentage |-> cmp.changedPercentage,
     motionDetected |-> MotionDetected(cmp.changedPercentage, tol),
     lowConfidence |-> cmp.lowConfidence,
     stablePoints |-> cmp.stablePoints, movedPoints |-> cmp.movedPoints]

\* onSeeked of run r throws (drawImage, getImageData or the analysis): the listener is
\* gone, resolveSeek is never called, and the exception is outside the try block
MOnSeekedThrows(r) ==
    /\ SeekedFor(mEls, mRuns, r)
    /\ Fault(FALSE)
    /\ mRuns' = [mRuns EXCEPT ![r].pc = "hung", ![r].frameFailed = TRUE]
    /\ UNCHANGED <<pureVars, nextId, captureVars, mAreas,
                   clicksLeft, activeTab, mSettings, mState, mLoads, mEls,
                   videoRef, colorVars>>

\* a plausible slip: previousEdgePoints is not replaced after a frame
MOnSeekedStale(r, seekOk) ==
    /\ SeekedFor(mEls, mRuns, r)
    /\ LET run == mRuns[r]
       IN  \E frame \in DrawnFrames(mEls, mRuns, r) :
           LET edgePoints == getEdgePoints(frame, run.edgeThreshold, run.excludedAreas)
           IN  \E shuffled \in Shuffles(edgePoints) :
               LET cmp == comparePoints(run.previousEdgePoints, edgePoints,
                                        run.comparisonPoints, shuffled)
                   newResults == Append(run.newResults,
                                        MotionResult(run.i, cmp, run.tolerance))
                   next == [run EXCEPT !.newResults = newResults,
                                       !.i = run.i + 1]
               IN  IF run.i + 1 < run.totalFrames
                   THEN IF seekOk
                        THEN /\ Fault(TRUE)
                             /\ mRuns' = [mRuns EXCEPT ![r] = next]
                             /\ mEls' = SeekTo(mEls, run.el, run.i + 1)
                             /\ mProcessingProgress'
                                  = WithCurrent(mProcessingProgress, run.i + 1)
                             /\ UNCHANGED <<mIsProcessing, mError, results>>
                        ELSE /\ Fault(FALSE)
                             /\ mRuns' = [mRuns EXCEPT ![r] =
                                            [next EXCEPT !.pc = "failed", !.frameFailed = TRUE]]
                             /\ mEls' = SeekTo(mEls, run.el, 0)
                             /\ mError' = ErrVideoAnalysis
                             /\ mIsProcessing' = FALSE
                             /\ mProcessingProgress' = Null
                             /\ UNCHANGED results
                   ELSE /\ seekOk
                        /\ Fault(TRUE)
                        /\ mRuns' = [mRuns EXCEPT ![r] = [next EXCEPT !.pc = "completed"]]
                        /\ mEls' = SeekTo(mEls, run.el, 0)
                        /\ results' = newResults
                        /\ mIsProcessing' = FALSE
                        /\ mProcessingProgress' = Null
                        /\ UNCHANGED mError
    /\ UNCHANGED <<pureVars, nextId, captureVars, mAreas,
                   clicksLeft, activeTab, mSettings, videoUrl, videoDimensions,
                   mExcludedAreas, mLoads, videoRef, colorVars>>

\* onSeeked of run r, and what follows resolveSeek() before the next await: the next
\* iteration of the loop, or setResults and the finally block
MOnSeeked(r, seekOk) ==
    /\ SeekedFor(mEls, mRuns, r)
    /\ LET run == mRuns[r]
       IN  \E frame \in DrawnFrames(mEls, mRuns, r) :
           LET edgePoints == getEdgePoints(frame, run.edgeThreshold, run.excludedAreas)
           IN  \E shuffled \in Shuffles(edgePoints) :
               LET cmp == comparePoints(run.previousEdgePoints, edgePoints,
                                        run.comparisonPoints, shuffled)
                   newResults == Append(run.newResults,
                                        MotionResult(run.i, cmp, run.tolerance))
                   next == [run EXCEPT !.newResults = newResults,
                                       !.previousEdgePoints = edgePoints,
                                       !.i = run.i + 1]
               IN  IF run.i + 1 < run.totalFrames
                   THEN IF seekOk
                        THEN /\ Fault(TRUE)
                             /\ mRuns' = [mRuns EXCEPT ![r] = next]
                             /\ mEls' = SeekTo(mEls, run.el, run.i + 1)
                             /\ mProcessingProgress'
                                  = WithCurrent(mProcessingProgress, run.i + 1)
                             /\ UNCHANGED <<mIsProcessing, mError, results>>
                        ELSE /\ Fault(FALSE)
                             /\ mRuns' = [mRuns EXCEPT ![r] =
                                            [next EXCEPT !.pc = "failed", !.frameFailed = TRUE]]
                             /\ mEls' = SeekTo(mEls, run.el, 0)
                             /\ mError' = ErrVideoAnalysis
                             /\ mIsProcessing' = FALSE
                             /\ mProcessingProgress' = Null
                             /\ UNCHANGED results
                   ELSE /\ seekOk
                        /\ Fault(TRUE)
                        /\ mRuns' = [mRuns EXCEPT ![r] = [next EXCEPT !.pc = "completed"]]
                        /\ mEls' = SeekTo(mEls, run.el, 0)
                        /\ results' = newResults
                        /\ mIsProcessing' = FALSE
                        /\ mProcessingProgress' = Null
                        /\ UNCHANGED mError
    /\ UNCHANGED <<pureVars, nextId, captureVars, mAreas,
                   clicksLeft, activeTab, mSettings, videoUrl, videoDimensions,
                   mExcludedAreas, mLoads, videoRef, colorVars>>

MotionNext(library) ==
    \/ \E t \in ToleranceChoices : SetTolerance(t)
    \/ \E f \in library : MFileChange(f)
    \/ \E l \in mLoads : MLoadedMetadata(l)
    \/ \E outcome \in {"ok", "noContext", "seekThrows"} : MAnalyzeClick(outcome)
    \/ \E r \in 1..Len(mRuns) : MOnSeekedThrows(r)
    \/ \E r \in 1..Len(mRuns), seekOk \in BOOLEAN : MOnSeeked(r, seekOk)

MotionLibrary == {1, 2, 3, 4}

InitSpecMotion ==
    /\ InitPure
    /\ InitMotion
    /\ InitColor
    /\ InitCapture
    /\ activeTab = "motionDetection"
    /\ clicksLeft = MaxClicks
    /\ faultsLeft = MaxFaults

NextMotion == MotionNext(MotionLibrary)

SpecMotion == InitSpecMotion /\ [][NextMotion]_vars

(***************************************************************************)
(* ColorUniformityAnalyzer: handlers                                       *)
(***************************************************************************)
\* video.duration > 15
IsTooLongColor(duration) == duration > COLOR_MAX_VIDEO_DURATION * 1000

\* a canvas whose width has just been assigned: transparent black
BlankCanvas(dimensions) ==
    [width |-> dimensions.width, height |-> dimensions.height,
     data |-> [k \in 1..(dimensions.width * dimensions.height) |->
                 [r |-> 0, g |-> 0, b |-> 0, a |-> 0]]]

\* ctx.drawImage(source, 0, 0) with the default source-over compositing; every pixel
\* of FrameCatalogue is opaque or fully transparent
DrawImage(canvas, frame) ==
    [canvas EXCEPT !.data = [k \in DOMAIN canvas.data |->
                               IF frame.data[k].a = 0 THEN canvas.data[k]
                               ELSE frame.data[k]]]

\* handleFileChange(file): resetState(), then the branch on file.type.  resetState
\* sets mediaDimensions to null, so MediaDisplay renders nothing: the <video> and the
\* canvases are unmounted.  An image is installed at once and the effect on
\* [mediaUrl, mediaType] creates the Image that loads it.
CFileChange(f) ==
    /\ activeTab = "colorUniformity"
    /\ clicksLeft > 0
    /\ clicksLeft' = clicksLeft - 1
    /\ analysisResult' = Null
    /\ mediaDimensions' = Null
    /\ cIsProcessing' = FALSE
    /\ frameByFrameResults' = Null
    /\ cProcessingProgress' = Null
    /\ cExcludedAreas' = <<>>
    /\ sourceVideoRef' = 0
    /\ originalCanvasRef' = 0
    /\ IF Files[f].type = "video"
       THEN /\ mediaType' = "none" /\ mediaUrl' = Null /\ cError' = NoError
            /\ cLoads' = cLoads \cup {[id |-> clicksLeft, file |-> f, kind |-> "video"]}
       ELSE IF Files[f].type = "image"
       THEN /\ mediaType' = "image" /\ mediaUrl' = [blob |-> f] /\ cError' = NoError
            /\ cLoads' = cLoads \cup {[id |-> clicksLeft, file |-> f, kind |-> "image"]}
       ELSE /\ mediaType' = "none" /\ mediaUrl' = Null /\ cError' = ErrUnsupportedMedia
            /\ cLoads' = cLoads
    /\ cDrawingAreaId' = 0
    /\ UNCHANGED <<pureVars, nextId, captureVars, showJsonImport, jsonInput, jsonError,
                   faultsLeft, activeTab, motionVars, threshold, cEls, imageRef, cCanvases,
                   cCanvas, cRuns>>

\* video.onloadedmetadata of the detached <video> of upload l
CLoadedMetadata(l) ==
    /\ l \in cLoads /\ l.kind = "video"
    /\ cLoads' = cLoads \ {l}
    /\ IF IsTooLongColor(Files[l.file].duration)
       THEN /\ cError' = ErrTooLong
            /\ UNCHANGED <<mediaType, mediaUrl, mediaDimensions, cEls, sourceVideoRef,
                           originalCanvasRef>>
       ELSE /\ mediaType' = "video"
            /\ mediaUrl' = [blob |-> l.file]
            /\ mediaDimensions' = VideoDimensionsOf(l.file)
            /\ originalCanvasRef' = 0
            /\ IF sourceVideoRef = 0
               THEN /\ cEls' = Append(cEls, VideoElement(l.file))
                    /\ sourceVideoRef' = Len(cEls) + 1
               ELSE /\ cEls' = [cEls EXCEPT ![sourceVideoRef] = VideoElement(l.file)]
                    /\ sourceVideoRef' = sourceVideoRef
            /\ cError' = cError
    /\ UNCHANGED <<pureVars, nextId, captureVars, cAreas,
                   userVars, motionVars, threshold, cExcludedAreas, cIsProcessing,
                   cProcessingProgress, analysisResult, frameByFrameResults, imageRef,
                   cCanvases, cCanvas, cRuns>>

\* img.onload (or img.onerror) of the Image of upload l, and the effect on
\* [mediaDimensions, mediaType] that draws imageRef.current on the original canvas
CImageLoaded(l, ok) ==
    /\ l \in cLoads /\ l.kind = "image"
    /\ cLoads' = cLoads \ {l}
    /\ Fault(ok)
    /\ IF ~ ok
       THEN /\ cError' = ErrImageLoad
            /\ UNCHANGED <<imageRef, mediaDimensions, cCanvases, originalCanvasRef>>
       ELSE /\ cError' = cError
            /\ imageRef' = l.file
            /\ mediaDimensions' = VideoDimensionsOf(l.file)
            /\ IF mediaType # "image"
               THEN UNCHANGED <<cCanvases, originalCanvasRef>>
               ELSE IF originalCanvasRef = 0
               THEN /\ cCanvases' = Append(cCanvases,
                                           DrawImage(BlankCanvas(VideoDimensionsOf(l.file)),
                                                     FrameAt(l.file, 0)))
                    /\ originalCanvasRef' = Len(cCanvases) + 1
               ELSE /\ cCanvases' = [cCanvases EXCEPT ![originalCanvasRef] =
                                       DrawImage(@, FrameAt(l.file, 0))]
                    /\ originalCanvasRef' = originalCanvasRef
    /\ UNCHANGED <<pureVars, nextId, captureVars, cAreas,
                   clicksLeft, activeTab, motionVars, mediaUrl, mediaType,
                   threshold, cExcludedAreas, cIsProcessing, cProcessingProgress,
                   analysisResult, frameByFrameResults, cEls, sourceVideoRef, cCanvas,
                   cRuns>>

CNewRun(kind, e, canvas, totalFrames) ==
    [kind |-> kind, el |-> e, file |-> IF e = 0 THEN 0 ELSE cEls[e].file,
     canvas |-> canvas, i |-> 0, totalFrames |-> totalFrames, results |-> <<>>,
     pc |-> "timer", frameFailed |-> FALSE, threshold |-> threshold,
     excludedAreas |-> cExcludedAreas]

\* handleAnalyzeClick up to its first await (video) or to the setTimeout (image); the
\* button is disabled={!hasMedia || isProcessing} with hasMedia = !!mediaUrl.
\* outcome "noContext": getContext('2d') gave null.
CAnalyzeClick(outcome) ==
    /\ activeTab = "colorUniformity"
    /\ clicksLeft > 0
    /\ mediaUrl # Null /\ ~ cIsProcessing
    /\ clicksLeft' = clicksLeft - 1
    /\ analysisResult' = Null
    /\ IF \/ mediaType = "none"
          \/ mediaType = "image" /\ (originalCanvasRef = 0 \/ mediaDimensions = Null)
          \/ mediaType = "video" /\ sourceVideoRef = 0
       THEN \* return before any work
            /\ outcome = "ok"
            /\ Fault(TRUE)
            /\ cError' = NoError
            /\ UNCHANGED <<cIsProcessing, frameByFrameResults, cProcessingProgress,
                           cCanvas, cRuns>>
       ELSE IF mediaType = "image"
       THEN /\ cError' = NoError
            /\ UNCHANGED <<frameByFrameResults, cProcessingProgress, cCanvas>>
            /\ IF outcome = "noContext"
               THEN Fault(FALSE) /\ UNCHANGED <<cIsProcessing, cRuns>>
               ELSE /\ Fault(TRUE)
                    /\ cIsProcessing' = TRUE
                    /\ cRuns' = Append(cRuns, CNewRun("image", 0, originalCanvasRef, 1))
       ELSE LET totalFrames == TotalFrames(Files[cEls[sourceVideoRef].file].duration)
                run == CNewRun("video", sourceVideoRef, 0, totalFrames)
            IN  /\ frameByFrameResults' = Null
                /\ cCanvas' = BlankCanvas(VideoDimensionsOf(cEls[sourceVideoRef].file))
                /\ IF outcome = "noContext"
                   THEN /\ Fault(FALSE)
                        /\ cError' = ErrContext
                        /\ cIsProcessing' = FALSE
                        /\ cProcessingProgress' = [current |-> 0, total |-> 0]
                        /\ cRuns' = Append(cRuns, [run EXCEPT !.pc = "failed"])
                   ELSE /\ Fault(TRUE)
                        /\ cError' = NoError
                        /\ cIsProcessing' = TRUE
                        /\ cProcessingProgress' = [current |-> 0, total |-> totalFrames]
                        /\ cRuns' = Append(cRuns, run)
    /\ UNCHANGED <<pureVars, nextId, captureVars, cAreas,
                   activeTab, motionVars, mediaUrl, mediaType, mediaDimensions,
                   threshold, cExcludedAreas, cLoads, cEls, sourceVideoRef, imageRef,
                   cCanvases, originalCanvasRef>>

\* the 50 ms timer of run r fires.  Image: the whole analysis, in its try/catch/finally.
\* Video: the loop starts, up to the first await of a seek.  outcome "throws":
\* analyzeFrame (image) or the assignment video.currentTime = time (video) threw.
CTimer(r, outcome) ==
    /\ r \in 1..Len(cRuns)
    /\ cRuns[r].pc = "timer"
    /\ Fault(outcome = "ok")
    /\ LET run == cRuns[r]
       IN  IF run.kind = "image"
           THEN /\ cIsProcessing' = FALSE
                /\ UNCHANGED <<frameByFrameResults, cProcessingProgress, cEls>>
                /\ IF outcome = "throws"
                   THEN /\ cError' = ErrImageAnalysis
                        /\ analysisResult' = analysisResult
                        /\ cRuns' = [cRuns EXCEPT ![r].pc = "failed", ![r].frameFailed = TRUE]
                   ELSE LET result == analyzeFrame(cCanvases[run.canvas], run.threshold,
                                                   run.excludedAreas)
                        IN  IF result # Null
                            THEN /\ analysisResult' = [dominantColor |-> result.dominantColor,
                                                       percentage |-> result.percentage]
                                 /\ cError' = cError
                                 /\ cRuns' = [cRuns EXCEPT ![r].pc = "completed"]
                            ELSE /\ cError' = ErrNoColors
                                 /\ analysisResult' = analysisResult
                                 /\ cRuns' = [cRuns EXCEPT ![r].pc = "failed"]
           ELSE IF run.totalFrames > 0 /\ outcome = "ok"
           THEN /\ cEls' = SeekTo(cEls, run.el, 0)
                /\ cRuns' = [cRuns EXCEPT ![r].pc = "awaitSeek"]
                /\ UNCHANGED <<cIsProcessing, cProcessingProgress, cError, analysisResult,
                               frameByFrameResults>>
           ELSE \* no frame at all: setFrameByFrameResults([]); or the catch block;
                \* then the finally block
                /\ cEls' = SeekTo(cEls, run.el, 0)
                /\ cIsProcessing' = FALSE
                /\ cProcessingProgress' = Null
                /\ analysisResult' = analysisResult
                /\ IF run.totalFrames = 0
                   THEN /\ outcome = "ok"
                        /\ frameByFrameResults' = [list |-> <<>>]
                        /\ cError' = cError
                        /\ cRuns' = [cRuns EXCEPT ![r].pc = "completed"]
                   ELSE /\ frameByFrameResults' = frameByFrameResults
                        /\ cError' = ErrVideoAnalysis
                        /\ cRuns' = [cRuns EXCEPT ![r].pc = "failed", ![r].frameFailed = TRUE]
    /\ UNCHANGED <<pureVars, nextId, captureVars, cAreas,
                   clicksLeft, activeTab, motionVars, mediaUrl, mediaType,
                   mediaDimensions, threshold, cExcludedAreas, cLoads, sourceVideoRef,
                   imageRef, cCanvases, originalCanvasRef, cCanvas>>

\* onSeeked of run r throws (drawImage, getImageData or analyzeFrame): the listener is
\* gone, resolveSeek is never called, and the exception is outside the try block
COnSeekedThrows(r) ==
    /\ SeekedFor(cEls, cRuns, r)
    /\ Fault(FALSE)
    /\ cRuns' = [cRuns EXCEPT ![r].pc = "hung", ![r].frameFailed = TRUE]
    /\ UNCHANGED <<pureVars, nextId, captureVars, cAreas,
                   clicksLeft, activeTab, motionVars, cState, cLoads, cEls,
                   sourceVideoRef, imageRef, cCanvases, originalCanvasRef, cCanvas>>

\* one FrameAnalysisResult: { time, ...result }
ColorResult(i, result) ==
    [time |-> [n |-> i, d |-> ANALYSIS_FPS], newImageData |-> result.newImageData,
     dominantColor |-> result.dominantColor, percentage |-> result.percentage]

\* onSeeked of run r, and what follows resolveSeek() before the next await: the next
\* iteration of the loop, or setFrameByFrameResults and the finally block
COnSeeked(r, seekOk) ==
    /\ SeekedFor(cEls, cRuns, r)
    /\ LET run == cRuns[r]
       IN  \E frame \in DrawnFrames(cEls, cRuns, r) :
           LET drawn == DrawImage(cCanvas, frame)
               result == analyzeFrame(drawn, run.threshold, run.excludedAreas)
               collected == IF result # Null
                            THEN Append(run.results, ColorResult(run.i, result))
                            ELSE run.results
               next == [run EXCEPT !.results = collected, !.i = run.i + 1]
           IN  /\ cCanvas' = drawn
               /\ IF run.i + 1 < run.totalFrames
                  THEN IF seekOk
                       THEN /\ Fault(TRUE)
                            /\ cRuns' = [cRuns EXCEPT ![r] = next]
                            /\ cEls' = SeekTo(cEls, run.el, run.i + 1)
                            /\ cProcessingProgress'
                                 = WithCurrent(cProcessingProgress, run.i + 1)
                            /\ UNCHANGED <<cIsProcessing, cError, analysisResult,
                                           frameByFrameResults>>
                       ELSE /\ Fault(FALSE)
                            /\ cRuns' = [cRuns EXCEPT ![r] =
                                           [next EXCEPT !.pc = "failed", !.frameFailed = TRUE]]
                            /\ cEls' = SeekTo(cEls, run.el, 0)
                            /\ cError' = ErrVideoAnalysis
                            /\ cIsProcessing' = FALSE
                            /\ cProcessingProgress' = Null
                            /\ UNCHANGED <<analysisResult, frameByFrameResults>>
                  ELSE /\ seekOk
                       /\ Fault(TRUE)
                       /\ cRuns' = [cRuns EXCEPT ![r] = [next EXCEPT !.pc = "completed"]]
                       /\ cEls' = SeekTo(cEls, run.el, 0)
                       /\ frameByFrameResults' = [list |-> collected]
                       /\ analysisResult'
                            = IF Len(collected) > 0
                              THEN [dominantColor |-> collected[1].dominantColor,
                                    percentage |-> collected[1].percentage,
                                    time |-> collected[1].time]
                              ELSE analysisResult
                       /\ cIsProcessing' = FALSE
                       /\ cProcessingProgress' = Null
                       /\ UNCHANGED cError
    /\ UNCHANGED <<pureVars, nextId, captureVars, cAreas,
                   clicksLeft, activeTab, motionVars, mediaUrl, mediaType,
                   mediaDimensions, threshold, cExcludedAreas, cLoads, sourceVideoRef,
                   imageRef, cCanvases, originalCanvasRef>>

ColorNext(library) ==
    \/ \E f \in library : CFileChange(f)
    \/ \E l \in cLoads : CLoadedMetadata(l)
    \/ \E l \in cLoads, ok \in BOOLEAN : CImageLoaded(l, ok)
    \/ \E outcome \in {"ok", "noContext"} : CAnalyzeClick(outcome)
    \/ \E r \in 1..Len(cRuns), outcome \in {"ok", "throws"} : CTimer(r, outcome)
    \/ \E r \in 1..Len(cRuns) : COnSeekedThrows(r)
    \/ \E r \in 1..Len(cRuns), seekOk \in BOOLEAN : COnSeeked(r, seekOk)

ColorLibrary == {4, 6, 7, 8}

InitSpecColor ==
    /\ InitPure
    /\ InitMotion
    /\ InitColor
    /\ InitCapture
    /\ activeTab = "colorUniformity"
    /\ clicksLeft = MaxClicks
    /\ faultsLeft = MaxFaults

NextColor == ColorNext(ColorLibrary)

SpecColor == InitSpecColor /\ [][NextColor]_vars

(***************************************************************************)
(* Uploads at the duration ceiling, on either tab                          *)
(***************************************************************************)
\* a video one millisecond over the ceiling, an unsupported file, a video exactly at
\* the ceiling
UploadLibrary == {3, 4, 5}

\* App mounts one analyzer at a time; a behaviour is a session on one of the two tabs
InitSpecUpload ==
    /\ InitPure
    /\ InitMotion
    /\ InitColor
    /\ InitCapture
    /\ activeTab \in {"motionDetection", "colorUniformity"}
    /\ clicksLeft = MaxClicks
    /\ faultsLeft = 0

\* the uploads, the arrivals of the metadata and the starts of the runs; the frame
\* steps of a run are those of SpecMotion and SpecColor, and here a run that has
\* started stays at its first await
NextUpload ==
    \/ \E f \in UploadLibrary : MFileChange(f)
    \/ \E l \in mLoads : MLoadedMetadata(l)
    \/ MAnalyzeClick("ok")
    \/ \E f \in UploadLibrary : CFileChange(f)
    \/ \E l \in cLoads : CLoadedMetadata(l)
    \/ CAnalyzeClick("ok")
    \/ \E r \in 1..Len(cRuns) : CTimer(r, "ok")

SpecUpload == InitSpecUpload /\ [][NextUpload]_vars

(***************************************************************************)
(* Excluded areas: add, remove, edit, draw and JSON import (both tools)    *)
(***************************************************************************)
\* a JSON value as JSON.parse returns it, for the properties the importers read:
\* a number, or undefined for a property that is absent
JsonNumber(n) == [t |-> "number", v |-> n]
JsonUndefined == [t |-> "undefined", v |-> 0]

JsonObject(x, y, width, height) ==
    [kind |-> "object", x |-> x, y |-> y, width |-> width, height |-> height,
     excludedAreas |-> <<>>, wrapsAreas |-> FALSE]

JsonRect(x, y, width, height) ==
    JsonObject(JsonNumber(x), JsonNumber(y), JsonNumber(width), JsonNumber(height))

JsonArray(items) == [kind |-> "array", items |-> items]

\* the texts the user can paste or import, each by the value JSON.parse makes of it
\* ("malformed": JSON.parse throws)
JsonTexts ==
    << [kind |-> "malformed"],
       JsonArray(<<JsonRect(1, 0, 2, 3)>>),
       JsonArray(<<JsonRect(0, 0, 4, 3),
                   JsonObject(JsonNumber(1), JsonNumber(1), JsonUndefined, JsonNumber(1))>>),
       JsonRect(1, 1, 1, 1),
       JsonArray([i \in 1..(MAX_EXCLUDED_AREAS + 1) |-> JsonRect(i, 0, 1, 1)]),
       [kind |-> "number"],
       JsonArray(<<JsonRect(2, 0, 1, 1), [kind |-> "null"]>>),
       [JsonObject(JsonUndefined, JsonUndefined, JsonUndefined, JsonUndefined)
          EXCEPT !.excludedAreas = <<JsonRect(0, 1, 2, 1)>>, !.wrapsAreas = TRUE] >>


\* typeof x !== 'number' || typeof y !== 'number' || ... is false
HasNumericFields(o) ==
    o.x.t = "number" /\ o.y.t = "number" /\ o.width.t = "number" /\ o.height.t = "number"

\* Controls.handleSaveJson, lines 242-269: the areas of the parsed text, or the message
\* of the exception (parsed.map throws at the first item that fails a check)
StrictAreas(parsed) ==
    IF parsed.kind = "malformed" THEN [error |-> "Unexpected token in JSON", areas |-> <<>>]
    ELSE IF parsed.kind = "array"
    THEN LET bad == {i \in 1..Len(parsed.items) :
                       \/ parsed.items[i].kind # "object"
                       \/ ~ HasNumericFields(parsed.items[i])}
         IN  IF bad = {}
             THEN [error |-> NoError,
                   areas |-> [i \in 1..Len(parsed.items) |->
                                [x |-> parsed.items[i].x.v, y |-> parsed.items[i].y.v,
                                 width |-> parsed.items[i].width.v,
                                 height |-> parsed.items[i].height.v]]]
             ELSE LET i == CHOOSE k \in bad : \A q \in bad : k <= q
                  IN  [error |-> IF parsed.items[i].kind # "object"
                                 THEN "Item at index i is not an object"
                                 ELSE "Item at index i must have numeric properties",
                       areas |-> <<>>]
    ELSE IF parsed.kind = "object"
    THEN IF HasNumericFields(parsed)
         THEN [error |-> NoError,
               areas |-> <<[x |-> parsed.x.v, y |-> parsed.y.v, width |-> parsed.width.v,
                            height |-> parsed.height.v]>>]
         ELSE [error |-> "Object must have numeric x, y, width, and height properties",
               areas |-> <<>>]
    ELSE [error |-> "JSON must be either an array of objects or a single object", areas |-> <<>>]

\* area.x || 0 on a property that is a number or absent
OrZero(j) == IF j.t = "number" THEN j.v ELSE 0

\* the map of handleImportJSON, lines 390-395 and 399-404: reading a property of null
\* throws, a property of a number is undefined
LenientAreas(items) ==
    IF \E i \in 1..Len(items) : items[i].kind = "null"
    THEN [error |-> "Failed to parse JSON file. Please check the format.", areas |-> <<>>]
    ELSE [error |-> NoError,
          areas |-> [i \in 1..Len(items) |->
                       IF items[i].kind = "object"
                       THEN [x |-> OrZero(items[i].x), y |-> OrZero(items[i].y),
                             width |-> OrZero(items[i].width),
                             height |-> OrZero(items[i].height)]
                       ELSE [x |-> 0, y |-> 0, width |-> 0, height |-> 0]]]

\* reader.onload of handleImportJSON, lines 386-411
FileAreas(parsed) ==
    IF parsed.kind \in {"malformed", "null"}
    THEN [error |-> "Failed to parse JSON file. Please check the format.", areas |-> <<>>]
    ELSE IF parsed.kind = "array" THEN LenientAreas(parsed.items)
    ELSE IF parsed.kind = "object" /\ parsed.wrapsAreas THEN LenientAreas(parsed.excludedAreas)
    ELSE [error |-> "Invalid JSON format.", areas |-> <<>>]

\* handleImportExcludedAreas: every imported area gets an id of its own
\* (Date.now() + Math.random()), and the new areas are appended
WithIds(areas, first) ==
    [i \in 1..Len(areas) |->
        [id |-> first + i - 1, x |-> areas[i].x, y |-> areas[i].y,
         width |-> areas[i].width, height |-> areas[i].height]]

AreaIds(areas) == {areas[i].id : i \in 1..Len(areas)}

\* prev.filter(area => area.id !== id)
WithoutArea(areas, id) ==
    LET keep == {a \in SeqToSet(areas) : a.id # id}
    IN  Filter(areas, keep, 1)

\* prev.map(area => area.id === id ? { ...area, ...patch } : area)
WithAreaPatched(areas, id, patch) ==
    [i \in 1..Len(areas) |->
        IF areas[i].id = id
        THEN [f \in DOMAIN areas[i] |-> IF f \in DOMAIN patch THEN patch[f] ELSE areas[i][f]]
        ELSE areas[i]]

NewArea(id) == [id |-> id, x |-> 0, y |-> 0, width |-> 0, height |-> 0]

AreaFields == {"x", "y", "width", "height"}
AreaValues == {0, 2}
DrawnRects ==
    {[x |-> 1, y |-> 0, width |-> 2, height |-> 3], [x |-> 0, y |-> 0, width |-> 4, height |-> 3]}

\* what the excluded-area handlers of the motion tool leave alone
mAreaFrame ==
    <<pureVars, faultsLeft, activeTab, captureVars, colorVars, mSettings, mHost, videoUrl,
      videoDimensions, mIsProcessing, mProcessingProgress, results>>

\* "+ Add Area" (rendered while excludedAreas.length < 5) and handleAddExcludedArea
MAddExcludedArea ==
    /\ activeTab = "motionDetection"
    /\ clicksLeft > 0
    /\ Len(mExcludedAreas) < MAX_EXCLUDED_AREAS
    /\ clicksLeft' = clicksLeft - 1
    /\ mExcludedAreas' = Append(mExcludedAreas, NewArea(nextId))
    /\ nextId' = nextId + 1
    /\ UNCHANGED <<mAreaFrame, mAreas, mError>>

\* the Remove button of the area with this id
MRemoveExcludedArea(id) ==
    /\ activeTab = "motionDetection"
    /\ clicksLeft > 0
    /\ id \in AreaIds(mExcludedAreas)
    /\ clicksLeft' = clicksLeft - 1
    /\ mExcludedAreas' = WithoutArea(mExcludedAreas, id)
    /\ UNCHANGED <<mAreaFrame, mAreas, mError, nextId>>

\* one of the four number inputs of the area with this id
MExcludedAreaChange(id, field, value) ==
    /\ activeTab = "motionDetection"
    /\ clicksLeft > 0
    /\ id \in AreaIds(mExcludedAreas)
    /\ clicksLeft' = clicksLeft - 1
    /\ mExcludedAreas' = WithAreaPatched(mExcludedAreas, id, [f \in {field} |-> value])
    /\ UNCHANGED <<mAreaFrame, mAreas, mError, nextId>>

\* the Draw button of the area with this id: handleDrawExcludedArea
MDrawExcludedArea(id) ==
    /\ activeTab = "motionDetection"
    /\ clicksLeft > 0
    /\ id \in AreaIds(mExcludedAreas)
    /\ clicksLeft' = clicksLeft - 1
    /\ mDrawingAreaId' = IF mDrawingAreaId # id THEN id ELSE 0
    /\ UNCHANGED <<mAreaFrame, mExcludedAreas, mReaders, mError, nextId>>

\* a rectangle dragged on the overlay canvas: handleCanvasMouseDown, -Move and -Up.
\* The canvas is rendered with the <video> and takes the mouse while drawingAreaId is set.
MAreaDrawn(rect) ==
    /\ activeTab = "motionDetection"
    /\ clicksLeft > 0
    /\ videoDimensions # Null
    /\ mDrawingAreaId # 0
    /\ clicksLeft' = clicksLeft - 1
    /\ mExcludedAreas' = WithAreaPatched(mExcludedAreas, mDrawingAreaId, rect)
    /\ mDrawingAreaId' = 0
    /\ UNCHANGED <<mAreaFrame, mReaders, mError, nextId>>

\* handleImportJSON: a file is chosen and a FileReader starts to read it
MImportJSON(t) ==
    /\ activeTab = "motionDetection"
    /\ clicksLeft > 0
    /\ clicksLeft' = clicksLeft - 1
    /\ mReaders' = mReaders \cup {[id |-> clicksLeft, text |-> t]}
    /\ UNCHANGED <<mAreaFrame, mExcludedAreas, mDrawingAreaId, mError, nextId>>

\* reader.onload of the FileReader rd, and handleImportExcludedAreas
MReaderLoaded(rd) ==
    /\ rd \in mReaders
    /\ mReaders' = mReaders \ {rd}
    /\ LET imported == FileAreas(JsonTexts[rd.text])
       IN  IF imported.error # NoError
           THEN /\ mError' = imported.error
                /\ UNCHANGED <<mExcludedAreas, nextId>>
           ELSE /\ mExcludedAreas' = mExcludedAreas \o WithIds(imported.areas, nextId)
                /\ nextId' = nextId + Len(imported.areas)
                /\ mError' = mError
    /\ UNCHANGED <<mAreaFrame, clicksLeft, mDrawingAreaId>>

MotionAreasNext ==
    \/ MAddExcludedArea
    \/ \E id \in AreaIds(mExcludedAreas) : MRemoveExcludedArea(id)
    \/ \E id \in AreaIds(mExcludedAreas), field \in AreaFields, value \in AreaValues :
         MExcludedAreaChange(id, field, value)
    \/ \E id \in AreaIds(mExcludedAreas) : MDrawExcludedArea(id)
    \/ \E rect \in DrawnRects : MAreaDrawn(rect)
    \/ \E t \in 1..Len(JsonTexts) : MImportJSON(t)
    \/ \E rd \in mReaders : MReaderLoaded(rd)

\* what the excluded-area handlers of the color tool leave alone
cAreaFrame ==
    <<pureVars, faultsLeft, activeTab, captureVars, motionVars, cHost, mediaUrl, mediaType,
      mediaDimensions, threshold, cIsProcessing, cProcessingProgress, cError,
      analysisResult, frameByFrameResults>>

\* "+ Add Area" (rendered while excludedAreas.length < 5) and handleAddExcludedArea
CAddExcludedArea ==
    /\ activeTab = "colorUniformity"
    /\ clicksLeft > 0
    /\ Len(cExcludedAreas) < MAX_EXCLUDED_AREAS
    /\ clicksLeft' = clicksLeft - 1
    /\ cExcludedAreas' = Append(cExcludedAreas, NewArea(nextId))
    /\ nextId' = nextId + 1
    /\ UNCHANGED <<cAreaFrame, cAreas>>

CRemoveExcludedArea(id) ==
    /\ activeTab = "colorUniformity"
    /\ clicksLeft > 0
    /\ id \in AreaIds(cExcludedAreas)
    /\ clicksLeft' = clicksLeft - 1
    /\ cExcludedAreas' = WithoutArea(cExcludedAreas, id)
    /\ UNCHANGED <<cAreaFrame, cAreas, nextId>>

CExcludedAreaChange(id, field, value) ==
    /\ activeTab = "colorUniformity"
    /\ clicksLeft > 0
    /\ id \in AreaIds(cExcludedAreas)
    /\ clicksLeft' = clicksLeft - 1
    /\ cExcludedAreas' = WithAreaPatched(cExcludedAreas, id, [f \in {field} |-> value])
    /\ UNCHANGED <<cAreaFrame, cAreas, nextId>>

\* handleDrawExcludedArea: setDrawingAreaId(prevId => prevId === id ? null : id)
CDrawExcludedArea(id) ==
    /\ activeTab = "colorUniformity"
    /\ clicksLeft > 0
    /\ id \in AreaIds(cExcludedAreas)
    /\ clicksLeft' = clicksLeft - 1
    /\ cDrawingAreaId' = IF cDrawingAreaId = id THEN 0 ELSE id
    /\ UNCHANGED <<cAreaFrame, cExcludedAreas, showJsonImport, jsonInput, jsonError, nextId>>

\* a rectangle dragged on the drawing canvas of MediaDisplay (handleMouseDown, -Move
\* and -Up), which calls handleAreaDrawn
CAreaDrawn(rect) ==
    /\ activeTab = "colorUniformity"
    /\ clicksLeft > 0
    /\ mediaDimensions # Null
    /\ cDrawingAreaId # 0
    /\ clicksLeft' = clicksLeft - 1
    /\ cExcludedAreas' = WithAreaPatched(cExcludedAreas, cDrawingAreaId, rect)
    /\ cDrawingAreaId' = 0
    /\ UNCHANGED <<cAreaFrame, showJsonImport, jsonInput, jsonError, nextId>>

\* Controls.handleImportJson: the "Import JSON" button opens the text box
CShowJsonImport ==
    /\ activeTab = "colorUniformity"
    /\ clicksLeft > 0
    /\ clicksLeft' = clicksLeft - 1
    /\ showJsonImport' = TRUE
    /\ jsonError' = NoError
    /\ UNCHANGED <<cAreaFrame, cExcludedAreas, cDrawingAreaId, jsonInput, nextId>>

\* Controls.handleJsonInputChange: the text box gets the text t
CJsonInputChange(t) ==
    /\ activeTab = "colorUniformity"
    /\ clicksLeft > 0
    /\ showJsonImport
    /\ clicksLeft' = clicksLeft - 1
    /\ jsonInput' = t
    /\ jsonError' = NoError
    /\ UNCHANGED <<cAreaFrame, cExcludedAreas, cDrawingAreaId, showJsonImport, nextId>>

\* JSON.parse(jsonInput); the empty text does not parse
ParsedInput(t) == IF t = 0 THEN [kind |-> "malformed"] ELSE JsonTexts[t]

\* Controls.handleSaveJson (the Save button), and handleImportExcludedAreas
CSaveJson ==
    /\ activeTab = "colorUniformity"
    /\ clicksLeft > 0
    /\ showJsonImport
    /\ clicksLeft' = clicksLeft - 1
    /\ LET imported == StrictAreas(ParsedInput(jsonInput))
       IN  IF imported.error # NoError
           THEN /\ jsonError' = imported.error
                /\ UNCHANGED <<cExcludedAreas, nextId, showJsonImport, jsonInput>>
           ELSE /\ cExcludedAreas' = cExcludedAreas \o WithIds(imported.areas, nextId)
                /\ nextId' = nextId + Len(imported.areas)
                /\ showJsonImport' = FALSE
                /\ jsonInput' = 0
                /\ jsonError' = NoError
    /\ UNCHANGED <<cAreaFrame, cDrawingAreaId>>

\* Controls.handleCancelJson
CCancelJson ==
    /\ activeTab = "colorUniformity"
    /\ clicksLeft > 0
    /\ showJsonImport
    /\ clicksLeft' = clicksLeft - 1
    /\ showJsonImport' = FALSE
    /\ jsonInput' = 0
    /\ jsonError' = NoError
    /\ UNCHANGED <<cAreaFrame, cExcludedAreas, cDrawingAreaId, nextId>>

ColorAreasNext ==
    \/ CAddExcludedArea
    \/ \E id \in AreaIds(cExcludedAreas) : CRemoveExcludedArea(id)
    \/ \E id \in AreaIds(cExcludedAreas), field \in AreaFields, value \in AreaValues :
         CExcludedAreaChange(id, field, value)
    \/ \E id \in AreaIds(cExcludedAreas) : CDrawExcludedArea(id)
    \/ \E rect \in DrawnRects : CAreaDrawn(rect)
    \/ CShowJsonImport
    \/ \E t \in 1..Len(JsonTexts) : CJsonInputChange(t)
    \/ CSaveJson
    \/ CCancelJson

\* the video the areas are drawn on
AreasLibrary == {1}

\* a session on one of the two tabs: uploads, and the excluded-area handlers
InitSpecAreas ==
    /\ InitPure
    /\ InitMotion
    /\ InitColor
    /\ InitCapture
    /\ activeTab \in {"motionDetection", "colorUniformity"}
    /\ clicksLeft = MaxClicks
    /\ faultsLeft = 0

NextAreas ==
    \/ \E f \in AreasLibrary : MFileChange(f)
    \/ \E l \in mLoads : MLoadedMetadata(l)
    \/ MotionAreasNext
    \/ \E f \in AreasLibrary : CFileChange(f)
    \/ \E l \in cLoads : CLoadedMetadata(l)
    \/ ColorAreasNext

SpecAreas == InitSpecAreas /\ [][NextAreas]_vars

(***************************************************************************)
(* Still images with excluded areas (color tool)                           *)
(***************************************************************************)
\* an opaque image and a fully transparent one
ImageLibrary == {7, 8}

\* upload, Add Area, Draw, the drawn rectangle, Analyze
ImageClicks == MaxClicks + 1

InitSpecImage ==
    /\ InitPure
    /\ InitMotion
    /\ InitColor
    /\ InitCapture
    /\ activeTab = "colorUniformity"
    /\ clicksLeft = ImageClicks
    /\ faultsLeft = MaxFaults

NextImage ==
    \/ \E f \in ImageLibrary : CFileChange(f)
    \/ \E l \in cLoads, ok \in BOOLEAN : CImageLoaded(l, ok)
    \/ \E outcome \in {"ok", "noContext"} : CAnalyzeClick(outcome)
    \/ \E r \in 1..Len(cRuns), outcome \in {"ok", "throws"} : CTimer(r, outcome)
    \/ CAddExcludedArea
    \/ \E id \in AreaIds(cExcludedAreas) : CDrawExcludedArea(id)
    \/ \E rect \in DrawnRects : CAreaDrawn(rect)

SpecImage == InitSpecImage /\ [][NextImage]_vars

(***************************************************************************)
(* CaptureAlgorithmAnalyzer: upload, processing and the OCR runs           *)
(***************************************************************************)
ErrOcrArea == "Please define a valid OCR area first."
ErrOcrFailed == "OCR failed: e.message"
ErrOcrTimeout == "OCR failed: OCR operation timed out after 5 seconds."
ErrOcrCancelled == "OCR operation cancelled by user."

\* handleFileChange of the capture tool: resetState(), then the type check and a new
\* Image.  resetState leaves isOcrProcessing, the refs and the running OCR alone.
KFileChange(f) ==
    /\ activeTab = "captureAlgorithm"
    /\ clicksLeft > 0
    /\ clicksLeft' = clicksLeft - 1
    /\ imageDimensions' = Null
    /\ kIsProcessing' = FALSE
    /\ hasProcessed' = FALSE
    /\ ocrResult' = 0
    /\ ocrError' = NoError
    /\ ocrArea' = [x |-> 0, y |-> 0, width |-> 0, height |-> 0]
    /\ kLoads' = IF Files[f].type = "image" THEN kLoads \cup {[id |-> clicksLeft, file |-> f]}
                 ELSE kLoads
    /\ UNCHANGED <<pureVars, faultsLeft, activeTab, motionVars, colorVars, nextId,
                   isOcrProcessing, kTimers, tesseractWorkerRef, isOcrCancelledRef,
                   ocrWorkers, ocrRuns>>

\* img.onload of the Image of upload l
KImageLoaded(l) ==
    /\ l \in kLoads
    /\ kLoads' = kLoads \ {l}
    /\ imageDimensions' = VideoDimensionsOf(l.file)
    /\ UNCHANGED <<pureVars, userVars, motionVars, colorVars, nextId, hasProcessed,
                   ocrArea, ocrResult, isOcrProcessing, ocrError, kIsProcessing, kTimers,
                   tesseractWorkerRef, isOcrCancelledRef, ocrWorkers, ocrRuns>>

\* handleAnalyze up to setTimeout; the button is disabled={!imageUrl || isProcessing}
\* and the canvases are mounted while imageDimensions is set
KAnalyzeClick ==
    /\ activeTab = "captureAlgorithm"
    /\ clicksLeft > 0
    /\ imageDimensions # Null
    /\ ~ kIsProcessing
    /\ clicksLeft' = clicksLeft - 1
    /\ kIsProcessing' = TRUE
    /\ ocrResult' = 0
    /\ ocrError' = NoError
    /\ kTimers' = kTimers + 1
    /\ UNCHANGED <<pureVars, faultsLeft, activeTab, motionVars, colorVars, nextId,
                   imageDimensions, hasProcessed, ocrArea, isOcrProcessing, kLoads,
                   tesseractWorkerRef, isOcrCancelledRef, ocrWorkers, ocrRuns>>

\* the 50 ms timer of handleAnalyze: without a mounted canvas
\* originalCanvasRef.current!.getContext throws and hasProcessed is not set
KAnalyzeTimer ==
    /\ kTimers > 0
    /\ kTimers' = kTimers - 1
    /\ hasProcessed' = IF imageDimensions # Null THEN TRUE ELSE hasProcessed
    /\ kIsProcessing' = FALSE
    /\ UNCHANGED <<pureVars, userVars, motionVars, colorVars, nextId, imageDimensions,
                   ocrArea, ocrResult, isOcrProcessing, ocrError, kLoads,
                   tesseractWorkerRef, isOcrCancelledRef, ocrWorkers, ocrRuns>>

\* the rectangles the user draws as OCR area
OcrRects == {[x |-> 1, y |-> 0, width |-> 2, height |-> 1]}

\* a rectangle dragged on the drawing canvas in OCR-drawing mode: handleMouseDown,
\* handleMouseMove and handleMouseUp
KOcrAreaDrawn(rect) ==
    /\ activeTab = "captureAlgorithm"
    /\ imageDimensions # Null
    /\ ocrArea' = rect
    /\ UNCHANGED <<pureVars, userVars, motionVars, colorVars, nextId, imageDimensions,
                   hasProcessed, ocrResult, isOcrProcessing, ocrError, kIsProcessing,
                   kHost>>

\* the OCR runs a session starts; a run is at its await ("creating", "racing",
\* "terminating") or "done", and race is how its Promise.race settled
MaxOcrRuns == 3

\* the button under the processed image is rendered while imageDimensions and
\* hasProcessed are set; it calls handleCancelOcr while isOcrProcessing, else handleRunOcr
OcrButtonShown == activeTab = "captureAlgorithm" /\ imageDimensions # Null /\ hasProcessed

\* handleRunOcr up to await Tesseract.createWorker('eng')
OcrRunClick ==
    /\ OcrButtonShown
    /\ clicksLeft > 0
    /\ ~ isOcrProcessing
    /\ clicksLeft' = clicksLeft - 1
    /\ IF ocrArea.width <= 0 \/ ocrArea.height <= 0
       THEN /\ ocrError' = ErrOcrArea
            /\ UNCHANGED <<isOcrProcessing, ocrResult, isOcrCancelledRef, ocrRuns,
                           ocrWorkers>>
       ELSE /\ Len(ocrRuns) < MaxOcrRuns
            /\ isOcrProcessing' = TRUE
            /\ ocrResult' = 0
            /\ ocrError' = NoError
            /\ isOcrCancelledRef' = FALSE
            /\ ocrRuns' = Append(ocrRuns, [pc |-> "creating", timer |-> 0, race |-> "none"])
            /\ ocrWorkers' = Append(ocrWorkers, "none")
    /\ UNCHANGED <<pureVars, faultsLeft, activeTab, motionVars, colorVars, nextId, imageDimensions,
                   hasProcessed, ocrArea, kIsProcessing, kLoads, kTimers,
                   tesseractWorkerRef>>

\* worker.terminate() on the worker of run r
Terminated(workers, r, by) ==
    [workers EXCEPT ![r] = IF @ = "alive" THEN by ELSE @]

\* the catch block of run r: setOcrError unless isOcrCancelledRef.current
Caught(message) == IF isOcrCancelledRef THEN ocrError ELSE message

\* createWorker resolves for run r, and handleRunOcr runs on to the await of
\* Promise.race.  Reading the context of an unmounted processed canvas throws: the
\* catch block runs and the finally block awaits worker.terminate().
OcrWorkerCreated(r) ==
    /\ r \in 1..Len(ocrRuns)
    /\ ocrRuns[r].pc = "creating"
    /\ tesseractWorkerRef' = r
    /\ IF imageDimensions = Null
       THEN /\ ocrError' = Caught(ErrOcrFailed)
            /\ ocrWorkers' = [ocrWorkers EXCEPT ![r] = "terminated"]
            /\ ocrRuns' = [ocrRuns EXCEPT ![r].pc = "terminating", ![r].race = "threw"]
            /\ nextId' = nextId
       ELSE /\ ocrError' = ocrError
            /\ ocrWorkers' = [ocrWorkers EXCEPT ![r] = "alive"]
            /\ ocrRuns' = [ocrRuns EXCEPT ![r] =
                                       [pc |-> "racing", timer |-> nextId, race |-> "pending"]]
            /\ nextId' = nextId + 1
    /\ UNCHANGED <<pureVars, userVars, motionVars, colorVars, imageDimensions,
                   hasProcessed, ocrArea, ocrResult, isOcrProcessing, kIsProcessing,
                   kLoads, kTimers, isOcrCancelledRef>>

\* createWorker rejects for run r: catch, and the finally block without a worker
OcrCreateFails(r) ==
    /\ r \in 1..Len(ocrRuns)
    /\ ocrRuns[r].pc = "creating"
    /\ Fault(FALSE)
    /\ ocrError' = Caught(ErrOcrFailed)
    /\ tesseractWorkerRef' = 0
    /\ isOcrProcessing' = FALSE
    /\ ocrRuns' = [ocrRuns EXCEPT ![r].pc = "done"]
    /\ UNCHANGED <<pureVars, clicksLeft, activeTab, motionVars, colorVars, nextId,
                   imageDimensions, hasProcessed, ocrArea, ocrResult, kIsProcessing,
                   kLoads, kTimers, isOcrCancelledRef, ocrWorkers>>

\* the recognition of run r resolves first (a terminated worker answers no job):
\* setOcrResult(result), then the finally block up to await worker.terminate()
OcrRecognized(r) ==
    /\ r \in 1..Len(ocrRuns)
    /\ ocrRuns[r].pc = "racing"
    /\ ocrWorkers[r] = "alive"
    /\ ocrResult' = r
    /\ ocrWorkers' = Terminated(ocrWorkers, r, "terminated")
    /\ ocrRuns' = [ocrRuns EXCEPT ![r].pc = "terminating", ![r].race = "text"]
    /\ UNCHANGED <<pureVars, userVars, motionVars, colorVars, nextId, imageDimensions,
                   hasProcessed, ocrArea, isOcrProcessing, ocrError, kIsProcessing,
                   kLoads, kTimers, tesseractWorkerRef, isOcrCancelledRef>>

\* the recognition of run r rejects first (of a live worker or of a terminated one,
\* whose pending job the library may reject or leave pending): the catch block, then
\* the finally block up to await worker.terminate()
OcrRecognitionFails(r) ==
    /\ r \in 1..Len(ocrRuns)
    /\ ocrRuns[r].pc = "racing"
    /\ ocrError' = Caught(ErrOcrFailed)
    /\ ocrWorkers' = Terminated(ocrWorkers, r, "terminated")
    /\ ocrRuns' = [ocrRuns EXCEPT ![r].pc = "terminating", ![r].race = "rejected"]
    /\ UNCHANGED <<pureVars, userVars, motionVars, colorVars, nextId, imageDimensions,
                   hasProcessed, ocrArea, ocrResult, isOcrProcessing, kIsProcessing,
                   kLoads, kTimers, tesseractWorkerRef, isOcrCancelledRef>>

\* the 5000 ms timer of run r fires first; the timers fire in the order they were set
OcrTimeout(r) ==
    /\ r \in 1..Len(ocrRuns)
    /\ ocrRuns[r].pc = "racing"
    /\ \A q \in 1..Len(ocrRuns) :
         ocrRuns[q].pc = "racing" => ocrRuns[r].timer <= ocrRuns[q].timer
    /\ ocrError' = Caught(ErrOcrTimeout)
    /\ ocrWorkers' = Terminated(ocrWorkers, r, "terminated")
    /\ ocrRuns' = [ocrRuns EXCEPT ![r].pc = "terminating", ![r].race = "timeout"]
    /\ UNCHANGED <<pureVars, userVars, motionVars, colorVars, nextId, imageDimensions,
                   hasProcessed, ocrArea, ocrResult, isOcrProcessing, kIsProcessing,
                   kLoads, kTimers, tesseractWorkerRef, isOcrCancelledRef>>

\* worker.terminate() of the finally block of run r resolves: the rest of the block
OcrTerminateDone(r) ==
    /\ r \in 1..Len(ocrRuns)
    /\ ocrRuns[r].pc = "terminating"
    /\ tesseractWorkerRef' = 0
    /\ isOcrProcessing' = FALSE
    /\ ocrRuns' = [ocrRuns EXCEPT ![r].pc = "done"]
    /\ UNCHANGED <<pureVars, userVars, motionVars, colorVars, nextId, imageDimensions,
                   hasProcessed, ocrArea, ocrResult, ocrError, kIsProcessing, kLoads,
                   kTimers, isOcrCancelledRef, ocrWorkers>>

\* handleCancelOcr: the button while isOcrProcessing
OcrCancelClick ==
    /\ OcrButtonShown
    /\ clicksLeft > 0
    /\ isOcrProcessing
    /\ clicksLeft' = clicksLeft - 1
    /\ IF tesseractWorkerRef # 0
       THEN /\ isOcrCancelledRef' = TRUE
            /\ ocrWorkers' = Terminated(ocrWorkers, tesseractWorkerRef, "cancelled")
            /\ tesseractWorkerRef' = 0
            /\ isOcrProcessing' = FALSE
            /\ ocrError' = ErrOcrCancelled
       ELSE UNCHANGED <<isOcrCancelledRef, ocrWorkers, tesseractWorkerRef,
                        isOcrProcessing, ocrError>>
    /\ UNCHANGED <<pureVars, faultsLeft, activeTab, motionVars, colorVars, nextId, imageDimensions,
                   hasProcessed, ocrArea, ocrResult, kIsProcessing, kLoads, kTimers,
                   ocrRuns>>

\* the images of the capture sessions
CaptureLibrary == {7}

\* the clicks of a capture session (upload, Analyze, Run and Cancel)
MaxOcrClicks == 2 * MaxClicks

InitSpecOcr ==
    /\ InitPure
    /\ InitMotion
    /\ InitColor
    /\ InitCapture
    /\ activeTab = "captureAlgorithm"
    /\ clicksLeft = MaxOcrClicks
    /\ faultsLeft = MaxFaults

NextOcr ==
    \/ \E f \in CaptureLibrary : KFileChange(f)
    \/ \E l \in kLoads : KImageLoaded(l)
    \/ KAnalyzeClick
    \/ KAnalyzeTimer
    \/ \E rect \in OcrRects : KOcrAreaDrawn(rect)
    \/ OcrRunClick
    \/ \E r \in 1..Len(ocrRuns) : OcrWorkerCreated(r)
    \/ \E r \in 1..Len(ocrRuns) : OcrCreateFails(r)
    \/ \E r \in 1..Len(ocrRuns) : OcrRecognized(r)
    \/ \E r \in 1..Len(ocrRuns) : OcrRecognitionFails(r)
    \/ \E r \in 1..Len(ocrRuns) : OcrTimeout(r)
    \/ \E r \in 1..Len(ocrRuns) : OcrTerminateDone(r)
    \/ OcrCancelClick

SpecOcr == InitSpecOcr /\ [][NextOcr]_vars

(***************************************************************************)
(* Calls of the pure functions on bounded inputs                           *)
(***************************************************************************)
MaxPixels == 4
MaxPoints == 3

PurePalette ==
    { [r |-> 0, g |-> 0, b |-> 0, a |-> 255], [r |-> 10, g |-> 0, b |-> 0, a |-> 255],
      [r |-> 5, g |-> 0, b |-> 0, a |-> 128], [r |-> 255, g |-> 255, b |-> 255, a |-> 127] }

\* ImageData: data.length = 4 * width * height
PureImages ==
    UNION { { [width |-> w, height |-> n \div w, data |-> d] : d \in [1..n -> PurePalette] } :
              <<w, n>> \in { t \in {1, 2} \X (1..MaxPixels) : t[2] % t[1] = 0 } }

PureThresholds == {0, 8, 30}

PureRects == [x : {0, 1}, y : {0}, width : {0, 1, 2}, height : {0, 2}]

PureAreaLists == {<<>>} \cup {<<a>> : a \in PureRects}
                   \cup {<<a, [x |-> 0, y |-> 1, width |-> 1, height |-> 1]>> : a \in PureRects}

\* edge-point lists as sobel returns them: distinct points in scan order
PurePointLists ==
    { [i \in 1..Len(xs) |-> [x |-> xs[i], y |-> 1]] :
        xs \in { q \in UNION {[1..n -> 1..MaxPoints] : n \in 0..MaxPoints} :
                   \A i \in 1..(Len(q) - 1) : q[i] < q[i + 1] } }

OthersIdle ==
    /\ InitMotion /\ InitColor /\ InitCapture
    /\ clicksLeft = 0 /\ faultsLeft = 0 /\ activeTab = "colorUniformity"
    /\ nextId = 1

InitAnalyzeFrame ==
    /\ call \in { [fn |-> "analyzeFrame", imageData |-> im, threshold |-> t,
                   areasToExclude |-> ar] :
                    im \in PureImages, t \in PureThresholds, ar \in PureAreaLists }
    /\ ret = Null
    /\ OthersIdle

CallAnalyzeFrame ==
    /\ call # Null /\ call.fn = "analyzeFrame" /\ ret = Null
    /\ ret' = [pass |-> Clusters(call.imageData, call.threshold, call.areasToExclude),
               result |-> analyzeFrame(call.imageData, call.threshold, call.areasToExclude)]
    /\ UNCHANGED <<call, userVars, motionVars, colorVars, nextId, captureVars>>

SpecAnalyzeFrame == InitAnalyzeFrame /\ [][CallAnalyzeFrame]_vars

InitComparePoints ==
    /\ call \in { [fn |-> "comparePoints", prevPoints |-> pp, currentPoints |-> cp,
                   comparisonPoints |-> n] :
                    pp \in PurePointLists, cp \in PurePointLists, n \in 0..(MaxPoints + 1) }
    /\ ret = Null
    /\ OthersIdle

CallComparePoints ==
    /\ call # Null /\ call.fn = "comparePoints" /\ ret = Null
    /\ \E shuffled \in Shuffles(call.currentPoints) :
         ret' = comparePoints(call.prevPoints, call.currentPoints, call.comparisonPoints,
                              shuffled)
    /\ UNCHANGED <<call, userVars, motionVars, colorVars, nextId, captureVars>>

SpecComparePoints == InitComparePoints /\ [][CallComparePoints]_vars

\* JSON.stringify of a number: a finite number is written with its value, NaN and
\* the infinities are written as null
StringifyNumber(v) == IF v.d = 0 THEN Null ELSE v

\* a plausible slip: the rows are exported whole
handleExportWhole(rs) ==
    [k \in 1..Len(rs) |->
        [rs[k] EXCEPT !.time = StringifyNumber(rs[k].time),
                      !.changedPercentage = StringifyNumber(rs[k].changedPercentage)]]

\* the array handleExport serialises: results.map(({ stablePoints, movedPoints,
\* ...rest }) => rest), each number as JSON.stringify writes it
handleExport(rs) ==
    [k \in 1..Len(rs) |->
        [frame |-> rs[k].frame,
         time |-> StringifyNumber(rs[k].time),
         changedPercentage |-> StringifyNumber(rs[k].changedPercentage),
         motionDetected |-> rs[k].motionDetected,
         lowConfidence |-> rs[k].lowConfidence]]

\* the results of a run over two frames, as the loop of handleAnalyzeVideoFile
\* builds them from the edge points of the frames
InitExport ==
    /\ \E f0 \in PurePointLists, f1 \in PurePointLists, n \in {MaxPoints - 1, 50},
          tol \in ToleranceChoices :
         \E s0 \in Shuffles(f0), s1 \in Shuffles(f1) :
             call = [fn |-> "handleExport",
                     results |-> << MotionResult(0, comparePoints(<<>>, f0, n, s0), tol),
                                    MotionResult(1, comparePoints(f0, f1, n, s1), tol) >>]
    /\ ret = Null
    /\ OthersIdle

CallExport ==
    /\ call # Null /\ call.fn = "handleExport" /\ ret = Null
    /\ ret' = [json |-> handleExport(call.results)]
    /\ UNCHANGED <<call, userVars, motionVars, colorVars, nextId, captureVars>>

SpecExport == InitExport /\ [][CallExport]_vars

\* the widest grayscale buffer sobel is called on
MaxWidth == 4

\* width and height of the buffers: some too narrow for an interior pixel
SobelSizes == {<<w, 3>> : w \in 2..MaxWidth} \cup {<<3, 4>>}

\* Uint8ClampedArray(width * height) of dark and bright pixels
SobelBuffers(width, height) == [1..(width * height) -> {0, 200}]

SobelThresholds == {-1, 0, 500}

SobelAreaLists == {<<>>, <<[x |-> 1, y |-> 1, width |-> 1, height |-> 1]>>}

InitSobel ==
    /\ \E wh \in SobelSizes :
         \E g \in SobelBuffers(wh[1], wh[2]), t \in SobelThresholds, ar \in SobelAreaLists :
            call = [fn |-> "sobel", grayscaleData |-> g, width |-> wh[1],
                    height |-> wh[2], threshold |-> t, excludedAreas |-> ar]
    /\ ret = Null
    /\ OthersIdle

CallSobel ==
    /\ call # Null /\ call.fn = "sobel" /\ ret = Null
    /\ ret' = [edgePoints |-> sobel(call.grayscaleData, call.width, call.height,
                                    call.threshold, call.excludedAreas)]
    /\ UNCHANGED <<call, userVars, motionVars, colorVars, nextId, captureVars>>

SpecSobel == InitSobel /\ [][CallSobel]_vars

\* opaque black, opaque white and a white pixel of alpha 127
FramePalette ==
    { [r |-> 0, g |-> 0, b |-> 0, a |-> 255], [r |-> 255, g |-> 255, b |-> 255, a |-> 255],
      [r |-> 255, g |-> 255, b |-> 255, a |-> 127] }

\* excluded areas on a 3 x 3 frame: none, the whole frame, one of zero width over the
\* centre, a corner together with the centre, and the top left pixels only
FrameAreaLists ==
    { <<>>,
      <<[x |-> 0, y |-> 0, width |-> 3, height |-> 3]>>,
      <<[x |-> 1, y |-> 1, width |-> 0, height |-> 1]>>,
      <<[x |-> 0, y |-> 0, width |-> 1, height |-> 1],
        [x |-> 1, y |-> 1, width |-> 1, height |-> 1]>>,
      <<[x |-> 0, y |-> 0, width |-> 2, height |-> 1]>> }

\* one 3 x 3 frame handed to both pipelines: analyzeFrame of the color tool and
\* getEdgePoints of the motion tool
InitPipelines ==
    /\ \E d \in [1..9 -> FramePalette], ar \in FrameAreaLists :
          call = [fn |-> "pipelines", imageData |-> [width |-> 3, height |-> 3, data |-> d],
                  threshold |-> 30, edgeThreshold |-> 100, areasToExclude |-> ar]
    /\ ret = Null
    /\ OthersIdle

CallPipelines ==
    /\ call # Null /\ call.fn = "pipelines" /\ ret = Null
    /\ ret' = [pass |-> Clusters(call.imageData, call.threshold, call.areasToExclude),
               edgePoints |-> getEdgePoints(call.imageData, call.edgeThreshold,
                                            call.areasToExclude)]
    /\ UNCHANGED <<call, userVars, motionVars, colorVars, nextId, captureVars>>

SpecPipelines == InitPipelines /\ [][CallPipelines]_vars

(***************************************************************************)
(* Claims                                                                  *)
(***************************************************************************)
RECURSIVE SumCounts(_, _)
SumCounts(colorClusters, j) ==
    IF j > Len(colorClusters) THEN 0
    ELSE colorClusters[j].count + SumCounts(colorClusters, j + 1)

\* the analyzable pixels of a buffer: alpha >= 128 and inside no excluded area
AnalyzablePixels(imageData, areas) ==
    { k \in 0..(Len(imageData.data) - 1) :
        /\ imageData.data[k + 1].a >= 128
        /\ ~ \E j \in 1..Len(areas) :
               /\ areas[j].x <= k % imageData.width
               /\ k % imageData.width < areas[j].x + areas[j].width
               /\ areas[j].y <= k \div imageData.width
               /\ k \div imageData.width < areas[j].y + areas[j].height }

\* C1: after the clustering pass of analyzeFrame the counts of the clusters sum to the
\* number of analyzable pixels (alpha >= 128, inside no excluded area), and the
\* percentage analyzeFrame reports lies in [0,100].
C1_CountsSumToAnalyzable ==
    (call # Null /\ call.fn = "analyzeFrame" /\ ret # Null) =>
        /\ SumCounts(ret.pass.colorClusters, 1)
             = Cardinality(AnalyzablePixels(call.imageData, call.areasToExclude))
        /\ ret.pass.analyzablePixelCount
             = Cardinality(AnalyzablePixels(call.imageData, call.areasToExclude))
        /\ ret.result # Null => PctInRange(ret.result.percentage)

\* a pass over a buffer with a transparent pixel, an excluded pixel and two clusters
C1_Witness ==
    /\ call # Null /\ call.fn = "analyzeFrame" /\ ret # Null
    /\ \E k \in 1..Len(call.imageData.data) : call.imageData.data[k].a < 128
    /\ \E k \in 0..(Len(call.imageData.data) - 1) :
         /\ call.imageData.data[k + 1].a >= 128
         /\ k \notin AnalyzablePixels(call.imageData, call.areasToExclude)
    /\ Len(ret.pass.colorClusters) >= 2
    /\ ret.result # Null
    /\ ret.result.percentage.n < 100 * ret.result.percentage.d

\* C2: comparePoints returns changedPercentage in [0,100], stablePoints.length +
\* movedPoints.length = sampleSize = min(len(current), comparisonPoints), and
\* lowConfidence exactly when 0 < len(current) < comparisonPoints.
C2_ComparePointsContract ==
    (call # Null /\ call.fn = "comparePoints" /\ ret # Null) =>
        /\ PctInRange(ret.changedPercentage)
        /\ Len(ret.stablePoints) + Len(ret.movedPoints)
             = Min(Len(call.currentPoints), call.comparisonPoints)
        /\ ret.lowConfidence
             <=> (0 < Len(call.currentPoints)
                  /\ Len(call.currentPoints) < call.comparisonPoints)

\* a capped sample (more current points than comparisonPoints) with both classes
C2_Witness ==
    /\ call # Null /\ call.fn = "comparePoints" /\ ret # Null
    /\ Len(call.currentPoints) > call.comparisonPoints
    /\ ret.stablePoints # <<>> /\ ret.movedPoints # <<>>

\* the runs of handleAnalyzeVideoFile that have analysed frame 0
RunsPastFrameZero == { r \in 1..Len(mRuns) : Len(mRuns[r].newResults) >= 1 }

\* C3 (as stated): in every motion run the result for frame 0 has changedPercentage = 0
\* and motionDetected = false.
C3_FrameZeroIsZero ==
    \A r \in RunsPastFrameZero :
        /\ PctIs(mRuns[r].newResults[1].changedPercentage, 0)
        /\ ~ mRuns[r].newResults[1].motionDetected

\* C3 (amended): frame 0 is compared against an empty previous edge-point set, so none
\* of its sampled points is stable: when frame 0 has at least one edge point its result
\* has changedPercentage = 100 and motionDetected = true (for every tolerance in 0..1);
\* changedPercentage = 0 only when frame 0 has no edge point.
C3_FrameZeroAllMoved ==
    \A r \in RunsPastFrameZero :
        LET first == mRuns[r].newResults[1]
        IN  /\ first.frame = 0
            /\ first.stablePoints = <<>>
            /\ first.movedPoints # <<>> =>
                 (PctIs(first.changedPercentage, 100) /\ first.motionDetected)
            /\ first.movedPoints = <<>> => PctIs(first.changedPercentage, 0)
            /\ Len(mRuns[r].newResults) = 1 =>
                 Len(first.movedPoints)
                   = Min(Len(mRuns[r].previousEdgePoints), mRuns[r].comparisonPoints)

\* a run whose frame 0 has edge points, at the highest tolerance
C3_Witness ==
    \E r \in RunsPastFrameZero :
        /\ mRuns[r].newResults[1].movedPoints # <<>>
        /\ mRuns[r].tolerance = 100
        /\ mRuns[r].newResults[1].motionDetected

\* C4: a frame whose current edge-point set is empty (sampleSize = 0) has the
\* zero-result: changedPercentage 0, motionDetected false and lowConfidence false, for
\* every tolerance in 0..1 and every previous edge-point set.
C4_EmptyFrameZeroResult ==
    \A r \in 1..Len(mRuns) : \A k \in 1..Len(mRuns[r].newResults) :
        LET res == mRuns[r].newResults[k]
        IN  (res.stablePoints = <<>> /\ res.movedPoints = <<>>) =>
                /\ PctIs(res.changedPercentage, 0)
                /\ ~ res.motionDetected
                /\ ~ res.lowConfidence

\* C5: a completed motion run over a video of duration d has exactly floor(d * 15)
\* results, the k-th (k from 0) with frame = k and time = k/15, and these are the
\* results it publishes.
C5_CompletedRunFrames ==
    \A r \in 1..Len(mRuns) :
        mRuns[r].pc = "completed" =>
            /\ Len(mRuns[r].newResults) = (Files[mRuns[r].file].duration * 15) \div 1000
            /\ \A k \in 1..Len(mRuns[r].newResults) :
                 /\ mRuns[r].newResults[k].frame = k - 1
                 /\ mRuns[r].newResults[k].time.n * 15
                      = (k - 1) * mRuns[r].newResults[k].time.d

\* a completed run of three frames whose list is the published one
C5_Witness ==
    \E r \in 1..Len(mRuns) :
        /\ mRuns[r].pc = "completed"
        /\ Len(mRuns[r].newResults) = 3
        /\ results = mRuns[r].newResults

\* what a step does to run r of handleAnalyzeVideoFile
RunStarted(r) == r > Len(mRuns)
RunAdvanced(r) ==
    /\ r <= Len(mRuns)
    /\ mRuns'[r].pc = "awaitSeek"
    /\ mRuns'[r].i = mRuns[r].i + 1
RunExited(r) ==
    /\ mRuns'[r].pc \in {"completed", "failed"}
    /\ RunStarted(r) \/ mRuns[r].pc = "awaitSeek"
RunFrameFailed(r) ==
    /\ mRuns'[r].frameFailed
    /\ RunStarted(r) \/ ~ mRuns[r].frameFailed

\* one step of the lifecycle Idle -> Running -> (Completed | Failed) of every run
C7_RunLifecycleStep ==
    \A r \in 1..Len(mRuns') :
        /\ (RunStarted(r) /\ mRuns'[r].pc = "awaitSeek") =>
             /\ mIsProcessing'
             /\ mProcessingProgress' = [current |-> 0, total |-> mRuns'[r].totalFrames]
        /\ RunAdvanced(r) =>
             /\ mIsProcessing /\ mIsProcessing'
             /\ mProcessingProgress # Null /\ mProcessingProgress' # Null
             /\ mProcessingProgress'.current = mProcessingProgress.current + 1
             /\ "total" \in DOMAIN mProcessingProgress'
             /\ mProcessingProgress'.current <= mProcessingProgress'.total
        /\ RunExited(r) => ~ mIsProcessing'

\* C7: every analysis run goes Idle -> Running -> (Completed | Failed): a run that
\* starts its loop is processing with progress.current = 0, each frame iteration
\* increases progress.current by exactly one and keeps it at most progress.total, and
\* on every exit path of the run isProcessing ends false.
C7_RunLifecycle == [][C7_RunLifecycleStep]_vars

\* the frame-sampling loops that are awaiting or processing a frame
ActiveLoops == { r \in 1..Len(mRuns) : mRuns[r].pc = "awaitSeek" }

\* C8: under any interleaving of uploads, Analyze clicks and seek completions at most
\* one frame-sampling loop is active at a time.
C8_AtMostOneLoop == Cardinality(ActiveLoops) <= 1

\* the step in which a frame of a run fails
C9_FrameFailureStep ==
    \A r \in 1..Len(mRuns') :
        RunFrameFailed(r) =>
            /\ mRuns'[r].pc = "failed"
            /\ mError' # NoError
            /\ ~ mIsProcessing'
            /\ results' \in {<<>>, results}

\* C9: when acquiring or analysing one frame of a multi-frame run fails, the run ends in
\* the Failed state: an error is surfaced, isProcessing becomes false and no partial
\* result list is published.
C9_FrameFailureAborts == [][C9_FrameFailureStep]_vars

\* C6: a color-pipeline video run has one FrameAnalysisResult for each timestamp it
\* has sampled, in ascending time order, and a completed one has exactly
\* floor(d * 15) of them: no sampled frame is left out.
C6_OneResultPerFrame ==
    \A r \in 1..Len(cRuns) :
        cRuns[r].kind = "video" =>
            /\ Len(cRuns[r].results) = cRuns[r].i
            /\ \A k \in 1..Len(cRuns[r].results) :
                 cRuns[r].results[k].time.n * 15 = (k - 1) * cRuns[r].results[k].time.d
            /\ cRuns[r].pc = "completed" =>
                 Len(cRuns[r].results) = (Files[cRuns[r].file].duration * 15) \div 1000

\* the videos installed or analysed, by duration in milliseconds
InstalledVideos ==
    (IF videoUrl # Null THEN {videoUrl.blob} ELSE {})
      \cup (IF mediaUrl # Null /\ mediaType = "video" THEN {mediaUrl.blob} ELSE {})
      \cup {mRuns[r].file : r \in 1..Len(mRuns)}
      \cup {cRuns[r].file : r \in {q \in 1..Len(cRuns) : cRuns[q].kind = "video"}}

\* what the arrival of a video's metadata does, and the videos installed after it
C10_UploadStep ==
    /\ \A l \in mLoads \ mLoads' :
         IF Files[l.file].duration > 15 * 1000
         THEN mError' # NoError /\ videoUrl' = videoUrl
         ELSE videoUrl' = [blob |-> l.file]
    /\ \A l \in {q \in cLoads \ cLoads' : q.kind = "video"} :
         IF Files[l.file].duration > 15 * 1000
         THEN cError' # NoError /\ mediaUrl' = mediaUrl /\ mediaType' = mediaType
         ELSE mediaUrl' = [blob |-> l.file] /\ mediaType' = "video"
    /\ \A f \in InstalledVideos' : Files[f].duration <= 15 * 1000

UploadRejected ==
    \/ \E f \in 1..Len(Files) : Files[f].type # "video" /\ MFileChange(f)
    \/ \E l \in mLoads : Files[l.file].duration > 15 * 1000 /\ MLoadedMetadata(l)
    \/ \E f \in 1..Len(Files) : Files[f].type \notin {"video", "image"} /\ CFileChange(f)
    \/ \E l \in cLoads :
         l.kind = "video" /\ Files[l.file].duration > 15 * 1000 /\ CLoadedMetadata(l)

C11_RejectedUploadStep ==
    UploadRejected =>
        /\ results' = results
        /\ analysisResult' = analysisResult
        /\ frameByFrameResults' = frameByFrameResults

\* C11: when an upload fails validation (unsupported media type, video too long), the
\* results of the previous analysis are left unchanged.
C11_RejectedUploadKeepsResults == [][C11_RejectedUploadStep]_vars

\* the completed runs of handleAnalyzeVideoFile on the loaded video with the parameters
\* the page shows now
\* a run that created a worker reaches the end of its finally block
C14_RunEnds(r) ==
    /\ ocrRuns[r].pc # "done"
    /\ ocrRuns'[r].pc = "done"
    /\ ocrWorkers[r] # "none"

C14_RunStep ==
    \A r \in 1..Len(ocrRuns) :
        /\ C14_RunEnds(r) =>
               ocrWorkers'[r] \in {"terminated", "cancelled"} /\ ~ isOcrProcessing'
        /\ OcrTimeout(r) /\ ocrWorkers[r] = "alive" => ocrError' = ErrOcrTimeout

\* C14: every OCR run that created a worker ends (reaches the end of its finally
\* block) with that worker terminated and isOcrProcessing false, and when the
\* 5-second timer of a run that the user did not cancel wins the race the timeout
\* failure is reported in ocrError.
C14_OcrRunEnds == [][C14_RunStep]_vars

\* a Cancel click while an OCR run is in progress ends the run at once; a run whose
\* worker the click terminated publishes no text
C15_CancelStep ==
    /\ OcrCancelClick =>
           /\ ~ isOcrProcessing'
           /\ ocrError' = ErrOcrCancelled
           /\ \A r \in 1..Len(ocrRuns) :
                  ocrRuns[r].pc \in {"creating", "racing"} => ocrWorkers'[r] = "cancelled"
    /\ \A r \in 1..Len(ocrRuns) :
           ocrWorkers[r] = "cancelled" /\ ocrResult' # ocrResult => ocrResult' # r

\* C15: a Cancel click at any moment while an OCR run is in progress (the button
\* shows Cancel because isOcrProcessing is true, also while the worker is still
\* being created) takes the run to the cancelled state in that step:
\* isOcrProcessing becomes false, ocrError is the cancellation message, the worker
\* of every run in flight is terminated by the click, and a cancelled run
\* publishes no recognized text afterwards.
C15_CancelIsImmediate == [][C15_CancelStep]_vars

CurrentRuns ==
    { r \in 1..Len(mRuns) :
        /\ mRuns[r].pc = "completed"
        /\ videoUrl # Null
        /\ mRuns[r].file = videoUrl.blob
        /\ mRuns[r].edgeThreshold = edgeThreshold
        /\ mRuns[r].comparisonPoints = comparisonPoints
        /\ mRuns[r].tolerance = tolerance
        /\ mRuns[r].excludedAreas = mExcludedAreas }

\* C16: the results shown belong to the loaded media and the current parameters: after
\* an upload or a parameter change the results computed before are discarded and never
\* reappear, the results of a run still in flight at the upload included.
C16_ResultsAreCurrent ==
    results # <<>> => \E r \in CurrentRuns : mRuns[r].newResults = results

\* an object of the input that lacks a numeric x, y, width or height
C12_LacksNumericField(o) ==
    o.kind = "object" /\ \E f \in AreaFields : o[f].t # "number"

\* the text is malformed JSON, or lists an object that lacks a numeric field
C12_InvalidText(parsed) ==
    \/ parsed.kind = "malformed"
    \/ /\ parsed.kind = "array"
       /\ \E i \in 1..Len(parsed.items) : C12_LacksNumericField(parsed.items[i])

C12_ImportStep ==
    /\ \A rd \in mReaders :
         MReaderLoaded(rd) /\ C12_InvalidText(JsonTexts[rd.text]) =>
             mError' # NoError /\ mExcludedAreas' = mExcludedAreas
    /\ CSaveJson /\ C12_InvalidText(ParsedInput(jsonInput)) =>
             jsonError' # NoError /\ cExcludedAreas' = cExcludedAreas

\* C12: an import of excluded areas from a text that is malformed JSON, or in which
\* an object lacks a numeric x, y, width or height, reports an error message and
\* leaves the list of excluded areas unchanged, on both import paths (the Save
\* button of the color tool's Controls and the file import of the motion tool).
C12_ImportAllOrNothing == [][C12_ImportStep]_vars

\* C13: in every reachable state of a session of add, remove, edit, draw and
\* JSON-import operations, the list of excluded areas of either tool holds at most
\* MAX_EXCLUDED_AREAS (5) areas.
C13_AtMostFiveAreas ==
    /\ Len(mExcludedAreas) <= MAX_EXCLUDED_AREAS
    /\ Len(cExcludedAreas) <= MAX_EXCLUDED_AREAS

\* C19: every point sobel returns is an interior pixel of the buffer it was called
\* on: 1 <= x <= width - 2 and 1 <= y <= height - 2 (so a buffer narrower or lower
\* than 3 gives no point).
C19_EdgePointsInterior ==
    ret # Null /\ call.fn = "sobel" =>
        \A i \in 1..Len(ret.edgePoints) :
            /\ 1 <= ret.edgePoints[i].x /\ ret.edgePoints[i].x <= call.width - 2
            /\ 1 <= ret.edgePoints[i].y /\ ret.edgePoints[i].y <= call.height - 2

\* sobel has returned points, on a buffer wider than 3 and on one of width 2
C19_Witness ==
    /\ ret # Null /\ call.fn = "sobel"
    /\ Len(ret.edgePoints) >= 2
    /\ call.width > 3

\* C20: on the same buffer, size and excluded areas, the points sobel returns for a
\* threshold t2 > t1 are a subset of the points it returns for t1.
C20_ThresholdMonotone ==
    ret # Null /\ call.fn = "sobel" =>
        \A t2 \in SobelThresholds :
            t2 > call.threshold =>
                SeqToSet(sobel(call.grayscaleData, call.width, call.height, t2,
                               call.excludedAreas))
                    \subseteq SeqToSet(ret.edgePoints)

\* a higher threshold has dropped some, not all, of the points of a lower one
C20_Witness ==
    /\ ret # Null /\ call.fn = "sobel"
    /\ \E t2 \in SobelThresholds :
         /\ t2 > call.threshold
         /\ LET fewer == SeqToSet(sobel(call.grayscaleData, call.width, call.height, t2,
                                        call.excludedAreas))
            IN  fewer # {} /\ fewer # SeqToSet(ret.edgePoints)

\* the frame with the colour of every pixel of alpha < 128 replaced by black
C17_Blackened(imageData) ==
    [imageData EXCEPT !.data =
        [k \in DOMAIN imageData.data |->
            IF imageData.data[k].a < 128 THEN [r |-> 0, g |-> 0, b |-> 0, a |-> 0]
            ELSE imageData.data[k]]]

\* C17: pixels with alpha < 128 are skipped by both pipelines.  Color pipeline: the
\* cluster counts sum to the number of pixels with alpha >= 128 outside every
\* excluded area.  Motion pipeline: no edge point of getEdgePoints lies on a pixel
\* with alpha < 128, and the edge points do not depend on the colour of such pixels
\* (they are no input of a gradient).
C17_TransparentSkipped ==
    ret # Null /\ call.fn = "pipelines" =>
        /\ SumCounts(ret.pass.colorClusters, 1)
               = Cardinality(AnalyzablePixels(call.imageData, call.areasToExclude))
        /\ \A i \in 1..Len(ret.edgePoints) :
               call.imageData.data[ret.edgePoints[i].y * call.imageData.width
                                   + ret.edgePoints[i].x + 1].a >= 128
        /\ getEdgePoints(C17_Blackened(call.imageData), call.edgeThreshold,
                         call.areasToExclude) = ret.edgePoints

\* the 50 ms timer of the still-image run r fires, without a host failure, on a
\* buffer of which every pixel is transparent or inside an excluded area
C18_NothingAnalyzable(r) ==
    /\ CTimer(r, "ok")
    /\ cRuns[r].kind = "image"
    /\ AnalyzablePixels(cCanvases[cRuns[r].canvas], cRuns[r].excludedAreas) = {}

C18_ImageStep ==
    \A r \in 1..Len(cRuns) :
        C18_NothingAnalyzable(r) =>
            /\ Len(Clusters(cCanvases[cRuns[r].canvas], cRuns[r].threshold,
                            cRuns[r].excludedAreas).colorClusters) = 0
            /\ analyzeFrame(cCanvases[cRuns[r].canvas], cRuns[r].threshold,
                            cRuns[r].excludedAreas) = Null
            /\ cError' = ErrNoColors
            /\ analysisResult' = analysisResult
            /\ cRuns'[r].pc = "failed"

\* C18: when every pixel of the buffer is transparent (alpha < 128) or inside an
\* excluded area, analyzeFrame forms zero clusters and returns null, and the
\* still-image analysis sets the error "Could not find any analyzable colors in
\* the image." and leaves analysisResult as it is: the run publishes no dominant
\* color and no percentage.
C18_NoAnalyzableColors == [][C18_ImageStep]_vars

\* a still-image run on an opaque image that an excluded area covers has failed
\* with the error and without a result
C18_Witness ==
    \E r \in 1..Len(cRuns) :
        /\ cRuns[r].kind = "image" /\ cRuns[r].pc = "failed" /\ ~ cRuns[r].frameFailed
        /\ cRuns[r].excludedAreas # <<>>
        /\ \A k \in 1..12 : cCanvases[cRuns[r].canvas].data[k].a = 255
        /\ cError = ErrNoColors
        /\ analysisResult = Null

\* the distance of two colors is strictly below the threshold (on the squares)
C22_Near(c1, c2, t) ==
    (c1.r - c2.r) * (c1.r - c2.r) + (c1.g - c2.g) * (c1.g - c2.g)
        + (c1.b - c2.b) * (c1.b - c2.b) < t * t

\* the founding pixels among the analyzable pixels below k: a pixel founds a cluster
\* when it is near no earlier founder
RECURSIVE C22_Founders(_, _, _, _)
C22_Founders(imageData, areas, t, k) ==
    IF k = 0 THEN {}
    ELSE LET before == C22_Founders(imageData, areas, t, k - 1)
             pixel == k - 1
         IN  IF /\ pixel \in AnalyzablePixels(imageData, areas)
                /\ \A f \in before :
                       ~ C22_Near(RGBOf(imageData.data[pixel + 1]),
                                  RGBOf(imageData.data[f + 1]), t)
             THEN before \cup {pixel}
             ELSE before

\* the founder whose cluster the analyzable pixel k joins: itself, or the earliest
\* founder it is near
C22_ClusterOf(imageData, founders, t, k) ==
    IF k \in founders THEN k
    ELSE CHOOSE f \in founders :
           /\ f < k
           /\ C22_Near(RGBOf(imageData.data[k + 1]), RGBOf(imageData.data[f + 1]), t)
           /\ \A g \in founders :
                  g < f => ~ C22_Near(RGBOf(imageData.data[k + 1]),
                                      RGBOf(imageData.data[g + 1]), t)

\* C22: the clustering pass is the greedy first-match fold.  The clusters are, in
\* creation order, those of the founding pixels in scan order (an analyzable pixel
\* founds a cluster when its color is at distance < threshold of no earlier
\* representative); each representative is the color of its founding pixel, and each
\* count is the number of analyzable pixels whose first cluster in creation order
\* at distance strictly below the threshold is that one (the founder included).
C22_GreedyFirstMatch ==
    ret # Null /\ call.fn = "analyzeFrame" =>
        LET im == call.imageData
            founders == C22_Founders(im, call.areasToExclude, call.threshold, Len(im.data))
            clusters == ret.pass.colorClusters
        IN  /\ Len(clusters) = Cardinality(founders)
            /\ \A j \in 1..Len(clusters) :
                 \E f \in founders :
                    /\ Cardinality({g \in founders : g < f}) = j - 1
                    /\ clusters[j].representative = RGBOf(im.data[f + 1])
                    /\ clusters[j].count =
                         Cardinality({k \in AnalyzablePixels(im, call.areasToExclude) :
                            C22_ClusterOf(im, founders, call.threshold, k) = f})

\* a pixel near two representatives has joined the first of them
C22_Witness ==
    /\ ret # Null /\ call.fn = "analyzeFrame"
    /\ Len(ret.pass.colorClusters) >= 2
    /\ ret.pass.colorClusters[1].count >= 2
    /\ \E k \in AnalyzablePixels(call.imageData, call.areasToExclude) :
         \A j \in 1..2 :
            /\ C22_Near(RGBOf(call.imageData.data[k + 1]),
                        ret.pass.colorClusters[j].representative, call.threshold)
            /\ RGBOf(call.imageData.data[k + 1]) # ret.pass.colorClusters[j].representative

\* the clusters of the largest count, by creation index
C23_Largest(colorClusters) ==
    {j \in 1..Len(colorClusters) :
        \A i \in 1..Len(colorClusters) : colorClusters[i].count <= colorClusters[j].count}

\* C23: the dominant cluster has the maximum count, and among the clusters that
\* share the maximum count it is the one created first: dominantColor is the
\* representative of that cluster and percentage is its count over the number of
\* analyzable pixels, times 100.
C23_DominantIsFirstLargest ==
    ret # Null /\ call.fn = "analyzeFrame" /\ ret.result # Null =>
        LET clusters == ret.pass.colorClusters
            first == CHOOSE j \in C23_Largest(clusters) :
                        \A i \in C23_Largest(clusters) : j <= i
        IN  /\ ret.result.dominantColor = clusters[first].representative
            /\ ret.result.percentage.n * ret.pass.analyzablePixelCount
                   = 100 * clusters[first].count * ret.result.percentage.d

\* two colors farther apart than the threshold split the analyzable pixels 50/50,
\* two pixels each, and the color met first is reported with percentage 50
C23_Witness ==
    /\ ret # Null /\ call.fn = "analyzeFrame" /\ ret.result # Null
    /\ Len(ret.pass.colorClusters) = 2
    /\ ret.pass.colorClusters[1].count = 2
    /\ ret.pass.colorClusters[2].count = 2
    /\ ret.pass.colorClusters[1].representative # ret.pass.colorClusters[2].representative
    /\ call.threshold > 0
    /\ ret.result.dominantColor = ret.pass.colorClusters[1].representative
    /\ PctIs(ret.result.percentage, 50)

\* C24: for a buffer whose analyzable pixels (at least one) all have the same RGB
\* color, and every threshold of the slider (0..255), clustering forms exactly one
\* cluster, its representative is that color, and percentage is 100.
C24_UniformIsOneCluster ==
    ret # Null /\ call.fn = "analyzeFrame" =>
        LET im == call.imageData
            analyzable == AnalyzablePixels(im, call.areasToExclude)
        IN  /\ analyzable # {}
            /\ call.threshold \in 0..255
            /\ \A k, q \in analyzable : RGBOf(im.data[k + 1]) = RGBOf(im.data[q + 1])
            => /\ Len(ret.pass.colorClusters) = 1
               /\ \A k \in analyzable :
                      ret.pass.colorClusters[1].representative = RGBOf(im.data[k + 1])
               /\ ret.result # Null
               /\ PctIs(ret.result.percentage, 100)

\* the pixel (px, py) is inside some area of the list: x <= px < x + width and
\* y <= py < y + height
C25_Excluded(px, py, areas) ==
    \E j \in 1..Len(areas) :
        /\ areas[j].x <= px /\ px < areas[j].x + areas[j].width
        /\ areas[j].y <= py /\ py < areas[j].y + areas[j].height

\* C25: no point getEdgePoints (sobel) returns lies inside an excluded area, and the
\* color pipeline counts exactly the opaque pixels outside every area (the same
\* predicate); areas that cover the whole frame leave no edge point, and areas of
\* zero width or height change neither the edge points nor the counted pixels.
C25_ExcludedAreasRespected ==
    ret # Null /\ call.fn = "pipelines" =>
        LET im == call.imageData
            areas == call.areasToExclude
        IN  /\ \A i \in 1..Len(ret.edgePoints) :
                   ~ C25_Excluded(ret.edgePoints[i].x, ret.edgePoints[i].y, areas)
            /\ ret.pass.analyzablePixelCount =
                   Cardinality({k \in 0..(Len(im.data) - 1) :
                       /\ im.data[k + 1].a >= 128
                       /\ ~ C25_Excluded(k % im.width, k \div im.width, areas)})
            /\ (\A k \in 0..(Len(im.data) - 1) :
                    C25_Excluded(k % im.width, k \div im.width, areas))
                   => ret.edgePoints = <<>>
            /\ (\A j \in 1..Len(areas) : areas[j].width = 0 \/ areas[j].height = 0)
                   => /\ ret.edgePoints = getEdgePoints(im, call.edgeThreshold, <<>>)
                      /\ ret.pass = Clusters(im, call.threshold, <<>>)

\* an area of zero width lies over the centre pixel, and the centre is an edge point
C25_Witness ==
    /\ ret # Null /\ call.fn = "pipelines"
    /\ Len(call.areasToExclude) = 1
    /\ call.areasToExclude[1].width = 0
    /\ ret.edgePoints = <<[x |-> 1, y |-> 1]>>
    /\ ret.pass.analyzablePixelCount > 0

\* the luminance at column x, row y of the buffer of the call
C26_At(x, y) == call.grayscaleData[y * call.width + x + 1]

\* the square of the gradient magnitude at (x, y): the horizontal kernel weighs the
\* right column against the left one, the vertical kernel the row below against the
\* row above, each with weights 1, 2, 1
C26_MagnitudeSq(x, y) ==
    LET gx == (C26_At(x + 1, y - 1) + 2 * C26_At(x + 1, y) + C26_At(x + 1, y + 1))
              - (C26_At(x - 1, y - 1) + 2 * C26_At(x - 1, y) + C26_At(x - 1, y + 1))
        gy == (C26_At(x - 1, y + 1) + 2 * C26_At(x, y + 1) + C26_At(x + 1, y + 1))
              - (C26_At(x - 1, y - 1) + 2 * C26_At(x, y - 1) + C26_At(x + 1, y - 1))
    IN  gx * gx + gy * gy

\* the interior pixels outside every excluded area
C26_Scanned ==
    {p \in [x : 1..(call.width - 2), y : 1..(call.height - 2)] :
        ~ \E j \in 1..Len(call.excludedAreas) :
            /\ call.excludedAreas[j].x <= p.x
            /\ p.x < call.excludedAreas[j].x + call.excludedAreas[j].width
            /\ call.excludedAreas[j].y <= p.y
            /\ p.y < call.excludedAreas[j].y + call.excludedAreas[j].height}

\* C26: an interior pixel outside the excluded areas is in sobel's output exactly
\* when its gradient magnitude sqrt(gx^2 + gy^2) is strictly greater than the
\* threshold (each such pixel once); a buffer of uniform luminance therefore gives
\* no edge point at any threshold >= 0, threshold 0 included.
C26_StrictMagnitudeTest ==
    ret # Null /\ call.fn = "sobel" =>
        /\ SeqToSet(ret.edgePoints) =
               {p \in C26_Scanned :
                   call.threshold < 0
                   \/ C26_MagnitudeSq(p.x, p.y) > call.threshold * call.threshold}
        /\ Len(ret.edgePoints) = Cardinality(SeqToSet(ret.edgePoints))
        /\ (/\ call.threshold >= 0
            /\ \A k \in 1..Len(call.grayscaleData) :
                   call.grayscaleData[k] = call.grayscaleData[1])
               => ret.edgePoints = <<>>

\* a bright, uniform buffer with two interior pixels at threshold 0: no edge point
C26_Witness ==
    /\ ret # Null /\ call.fn = "sobel"
    /\ call.threshold = 0
    /\ call.width = 4
    /\ call.excludedAreas = <<>>
    /\ \A k \in 1..Len(call.grayscaleData) : call.grayscaleData[k] = 200
    /\ ret.edgePoints = <<>>

\* C21: the exported JSON has one row per result, in the order of the results, and
\* each row has exactly the fields frame, time, changedPercentage, motionDetected
\* and lowConfidence, with the values of the result; no row has stablePoints or
\* movedPoints.
C21_ExportKeepsScalars ==
    ret # Null /\ call.fn = "handleExport" =>
        /\ Len(ret.json) = Len(call.results)
        /\ \A k \in 1..Len(call.results) :
             /\ DOMAIN ret.json[k]
                  = {"frame", "time", "changedPercentage", "motionDetected", "lowConfidence"}
             /\ \A f \in DOMAIN ret.json[k] : ret.json[k][f] = call.results[k][f]

\* an export of two results, the second of which carries stable and moved points
C21_Witness ==
    /\ ret # Null /\ call.fn = "handleExport"
    /\ Len(ret.json) = 2
    /\ call.results[2].stablePoints # <<>>
    /\ call.results[2].movedPoints # <<>>
    /\ call.results[2].motionDetected
    /\ ret.json[2].frame = 1
    /\ PctIs(ret.json[2].changedPercentage, 50)

\* C27: every point comparePoints puts in stablePoints has its coordinates in the
\* previous set and every point it puts in movedPoints has not, and
\* changedPercentage is the number of moved points over sampleSize, times 100
\* (0 when the sample is empty); with an empty previous set and a non-empty current
\* set every sampled point is moved and changedPercentage is 100.
C27_ClassifiedByPrevious ==
    ret # Null /\ call.fn = "comparePoints" =>
        LET sampleSize == IF Len(call.currentPoints) < call.comparisonPoints
                          THEN Len(call.currentPoints) ELSE call.comparisonPoints
            inPrevious(p) == \E j \in 1..Len(call.prevPoints) :
                                 call.prevPoints[j].x = p.x /\ call.prevPoints[j].y = p.y
        IN  /\ \A i \in 1..Len(ret.stablePoints) : inPrevious(ret.stablePoints[i])
            /\ \A i \in 1..Len(ret.movedPoints) : ~ inPrevious(ret.movedPoints[i])
            /\ IF sampleSize = 0
               THEN PctIs(ret.changedPercentage, 0)
               ELSE ret.changedPercentage.n * sampleSize
                      = 100 * Len(ret.movedPoints) * ret.changedPercentage.d
            /\ (call.prevPoints = <<>> /\ sampleSize > 0)
                  => /\ ret.stablePoints = <<>>
                     /\ Len(ret.movedPoints) = sampleSize
                     /\ PctIs(ret.changedPercentage, 100)

\* an empty previous set, two current points, a cap above them: low confidence,
\* both points moved, 100 percent
C27_Witness ==
    /\ ret # Null /\ call.fn = "comparePoints"
    /\ call.prevPoints = <<>>
    /\ Len(call.currentPoints) = 2
    /\ call.comparisonPoints = 3
    /\ ret.lowConfidence
    /\ Len(ret.movedPoints) = 2
    /\ PctIs(ret.changedPercentage, 100)

\* the number of places of the sequence s that hold the point p
C28_Uses(s, p) == Cardinality({i \in 1..Len(s) : s[i] = p})

\* C28: whatever the shuffle leaves, the points comparePoints classifies (the stable
\* and the moved ones together) are drawn from currentPoints without replacement:
\* each classified point is a current point, no current point is classified more
\* often than it occurs in currentPoints, there are min(len(current),
\* comparisonPoints) classified points, and when len(current) <= comparisonPoints
\* every current point is classified exactly once.
C28_SampleWithoutReplacement ==
    ret # Null /\ call.fn = "comparePoints" =>
        LET classified == ret.stablePoints \o ret.movedPoints
            current == call.currentPoints
        IN  /\ \A i \in 1..Len(classified) : \E j \in 1..Len(current) : current[j] = classified[i]
            /\ \A j \in 1..Len(current) :
                   C28_Uses(classified, current[j]) <= C28_Uses(current, current[j])
            /\ Len(classified) = IF Len(current) < call.comparisonPoints
                                 THEN Len(current) ELSE call.comparisonPoints
            /\ Len(current) <= call.comparisonPoints
                  => \A j \in 1..Len(current) : C28_Uses(classified, current[j]) = 1

\* three current points all classified, in an order the shuffle changed: the moved
\* point of highest x before the moved point of lowest x
C28_Witness ==
    /\ ret # Null /\ call.fn = "comparePoints"
    /\ Len(call.currentPoints) = 3
    /\ call.comparisonPoints = 3
    /\ Len(ret.stablePoints) = 1
    /\ Len(ret.movedPoints) = 2
    /\ ret.movedPoints[1].x > ret.movedPoints[2].x

\* the last result of a sequence of results
C29_Newest(rs) == rs[Len(rs)]

\* what a step that leaves run r at frame i, or takes it from frame i to frame i + 1,
\* does to the loop of r
C29_RunStep(r) ==
    LET run == mRuns[r]
        after == mRuns'[r]
        i == run.i
        alone == \A q \in 1..Len(mRuns) : q # r => mRuns[q].el # run.el
    IN  /\ after.i \in {i, i + 1}
        /\ after.i = i =>
              /\ after.previousEdgePoints = run.previousEdgePoints
              /\ after.newResults = run.newResults
        /\ after.i = i + 1 =>
              \* frame i had been sought, and its seek has ended
              /\ run.pc = "awaitSeek" /\ mEls[run.el].seeking
              /\ alone => mEls[run.el].currentTime = i
              \* frame i is analyzed against the set kept from frame i - 1
              /\ Len(after.newResults) = i + 1
              /\ C29_Newest(after.newResults).frame = i
              /\ SeqToSet(C29_Newest(after.newResults).stablePoints)
                    \subseteq SeqToSet(run.previousEdgePoints)
              /\ SeqToSet(C29_Newest(after.newResults).movedPoints)
                    \cap SeqToSet(run.previousEdgePoints) = {}
              \* the set kept for frame i + 1 is the whole edge-point set of the frame
              \* drawn, which is frame i when no other loop seeks on the element
              /\ \E j \in 0..(Len(Files[mEls[run.el].file].frames) - 1) :
                    /\ alone => j = Min(i, Len(Files[run.file].frames) - 1)
                    /\ after.previousEdgePoints
                         = getEdgePoints(FrameAt(mEls[run.el].file, j), run.edgeThreshold,
                                         run.excludedAreas)
              \* frame i + 1 is sought in this step, not before
              /\ after.pc = "awaitSeek" =>
                    /\ i + 1 < run.totalFrames
                    /\ alone => mEls'[run.el].currentTime = i + 1 /\ mEls'[run.el].seeking

C30_LateStep(r, q) ==
    /\ r < q
    /\ ocrRuns'[r] # ocrRuns[r]
    /\ ocrRuns[q].pc # "done"

\* C30: a step of an OCR run that was cancelled or superseded (a later run has
\* started) leaves the state of the later run alone while that run is in flight:
\* it does not change ocrError, it does not clear tesseractWorkerRef when the ref
\* holds the later run's worker, and it does not reset isOcrProcessing.
C30_LateStepsAreHarmless ==
    [][\A r \in 1..Len(ocrRuns) : \A q \in 1..Len(ocrRuns) :
          C30_LateStep(r, q) =>
              /\ ocrError' = ocrError
              /\ tesseractWorkerRef = q => tesseractWorkerRef' = q
              /\ isOcrProcessing => isOcrProcessing']_vars
=============================================================================
